---- MODULE Spec2Model ----
(***************************************************************************)
(* Visibly pushdown automata (crate `vpa`): the layered transition lookup, *)
(* the merge of edges, layers and states, the well-formedness check, the   *)
(* streaming execution driver and the subset construction.                 *)
(*                                                                         *)
(* Encoding of the Rust values:                                            *)
(*   Option<T>         <<>> (None) or <<x>> (Some(x))                       *)
(*   Range<A>          [first |-> a, last |-> b]                            *)
(*   Ctrl              a set of indices (BTreeSet<usize>, form "set") or   *)
(*                     one index (usize, form "single")                    *)
(*   Edge              [kind, dst, call, push] with push an Option         *)
(*   Wildcard          [tag |-> "Any", etc |-> <<e>>, map |-> <<>>] or     *)
(*                     [tag |-> "Specific", etc |-> <<>>, map |-> v] with  *)
(*                     v a sequence of <<range, edge>>                     *)
(*   CurryOpt          [wildcard, none, some] with some a function from a  *)
(*                     set of stack symbols to Wildcard                    *)
(*   Result<T, E>      <<"Ok", x>> or <<"Err", e>>                          *)
(*   IllFormed         a tuple whose head is the variant's name            *)
(* A panic (a failed assertion or unwrap) is the outcome <<"Panic">>.      *)
(***************************************************************************)
EXTENDS Integers, Sequences, FiniteSets, TLC

\* ------------------------------------------------------------------ bounds

\* Largest number of states of an automaton drawn at Init.
MaxStates == 2

\* Longest input drawn at Init.
MaxLen == 2

\* ------------------------------------------------------------------ values

None == <<>>

Some(x) == <<x>>

Ok(x) == <<"Ok", x>>

Err(e) == <<"Err", e>>

IsOk(r) == r[1] = "Ok"

IsErr(r) == r[1] = "Err"

Min(a, b) == IF a <= b THEN a ELSE b

Max(a, b) == IF a >= b THEN a ELSE b

\* ------------------------------------------------------------------ range.rs

Range(first, last) == [first |-> first, last |-> last]

\* Range::unit
RangeUnit(v) == Range(v, v)

\* A containment that leaves the last value of the range out.
RangeContainsHalfOpen(r, value) ==
    IF value < r.first THEN "Less"
    ELSE IF value >= r.last THEN "Greater"
    ELSE "Equal"

\* Range::contains: a three-way comparison.
RangeContains(r, value) ==
    IF value < r.first THEN "Less"
    ELSE IF value > r.last THEN "Greater"
    ELSE "Equal"

\* An overlap that looks at one of the two comparisons only.
RangeOverlapOneSided(self, other) ==
    other.last >= self.first

\* Range::overlap, as written: a disjunction of the two comparisons.
RangeOverlap(self, other) ==
    other.last >= self.first \/ other.first <= self.last

\* Range::union, as written: `last` is the minimum of the two FIRSTS.
RangeUnion(self, other) ==
    LET first == Max(self.first, other.first)
        last == Min(self.first, other.first)
    IN  IF first <= last THEN Some(Range(first, last)) ELSE None

\* ------------------------------------------------------------------ indices.rs

\* Indices::iter: the indices of a control value, in ascending order.
RECURSIVE SetToSeq(_)
SetToSeq(s) ==
    IF s = {} THEN <<>>
    ELSE LET m == CHOOSE x \in s : \A y \in s : x <= y
         IN  <<m>> \o SetToSeq(s \ {m})

IndicesIter(form, ctrl) ==
    IF form = "set" THEN SetToSeq(ctrl) ELSE <<ctrl>>

\* The same indices as a set.
IndicesSet(form, ctrl) ==
    IF form = "set" THEN ctrl ELSE {ctrl}

\* Indices::map with the function i -> i % size.
IndicesMapMod(form, ctrl, size) ==
    IF form = "set" THEN {i % size : i \in ctrl} ELSE ctrl % size

\* A merge of control values in which the single form keeps its own index.
IndicesMergeKeepsSelf(form, self, other) ==
    IF form = "set" THEN Ok(self \cup other) ELSE Ok(self)

\* A merge of control values that forgets the other one.
IndicesMergeForgets(form, self, other) ==
    IF form = "set" THEN Ok(self)
    ELSE IF self = other THEN Ok(self)
    ELSE Err(<<"IndexMergeConflict", self, other>>)

\* Merge for usize and for BTreeSet<usize>.
IndicesMerge(form, self, other) ==
    IF form = "set" THEN Ok(self \cup other)
    ELSE IF self = other THEN Ok(self)
    ELSE Err(<<"IndexMergeConflict", self, other>>)

\* ------------------------------------------------------------------ call.rs

\* Merge for Call: equality of the two actions.
CallMerge(self, other) ==
    IF self = other THEN Ok(self)
    ELSE Err(<<"CallMergeConflict", self, other>>)

\* ------------------------------------------------------------------ edge.rs

EdgeCall(dst, call, push) ==
    [kind |-> "Call", dst |-> dst, call |-> call, push |-> Some(push)]

EdgeReturn(dst, call) ==
    [kind |-> "Return", dst |-> dst, call |-> call, push |-> None]

EdgeLocal(dst, call) ==
    [kind |-> "Local", dst |-> dst, call |-> call, push |-> None]

\* The kind of the edge that Edge::merge builds from two Local edges.
LocalMergeKind == "Return"

\* A merge of edges that never compares the push symbols of two Call edges.
EdgeMergeKeepsPush(form, self, other) ==
    IF self.kind # other.kind THEN Err(<<"EdgeMergeConflict", self, other>>)
    ELSE LET d == IndicesMerge(form, self.dst, other.dst) IN
         IF IsErr(d) THEN d ELSE
         LET c == CallMerge(self.call, other.call) IN
         IF IsErr(c) THEN c
         ELSE Ok([kind |-> IF self.kind = "Local" THEN LocalMergeKind ELSE self.kind,
                  dst |-> d[2], call |-> c[2], push |-> self.push])

\* A merge of edges that never compares the kinds of the two edges.
EdgeMergeAcrossKinds(form, self, other) ==
    LET d == IndicesMerge(form, self.dst, other.dst) IN
    IF IsErr(d) THEN d ELSE
    LET c == CallMerge(self.call, other.call) IN
    IF IsErr(c) THEN c
    ELSE IF self.kind = "Call" /\ other.kind = "Call" /\ self.push # other.push
    THEN Err(<<"PushMergeConflict", self.push[1], other.push[1]>>)
    ELSE Ok([self EXCEPT !.dst = d[2], !.call = c[2]])

\* Merge for Edge.
EdgeMerge(form, self, other) ==
    IF self.kind = "Call" /\ other.kind = "Call" THEN
        LET d == IndicesMerge(form, self.dst, other.dst) IN
        IF IsErr(d) THEN d ELSE
        LET c == CallMerge(self.call, other.call) IN
        IF IsErr(c) THEN c ELSE
        IF self.push = other.push
        THEN Ok(EdgeCall(d[2], c[2], self.push[1]))
        ELSE Err(<<"PushMergeConflict", self.push[1], other.push[1]>>)
    ELSE IF self.kind = "Return" /\ other.kind = "Return" THEN
        LET d == IndicesMerge(form, self.dst, other.dst) IN
        IF IsErr(d) THEN d ELSE
        LET c == CallMerge(self.call, other.call) IN
        IF IsErr(c) THEN c ELSE Ok(EdgeReturn(d[2], c[2]))
    ELSE IF self.kind = "Local" /\ other.kind = "Local" THEN
        LET d == IndicesMerge(form, self.dst, other.dst) IN
        IF IsErr(d) THEN d ELSE
        LET c == CallMerge(self.call, other.call) IN
        IF IsErr(c) THEN c
        ELSE Ok([kind |-> LocalMergeKind, dst |-> d[2], call |-> c[2], push |-> None])
    ELSE Err(<<"EdgeMergeConflict", self, other>>)

\* An Edge::invoke whose Call edge pushes nothing.
EdgeInvokeNoPush(self, stack) ==
    IF self.kind = "Return" THEN
        IF stack = <<>> THEN <<Err(FALSE), stack>>
        ELSE <<Ok(self.dst), SubSeq(stack, 1, Len(stack) - 1)>>
    ELSE <<Ok(self.dst), stack>>

\* An Edge::invoke whose Return edge does not look at the stack.
EdgeInvokeUnderflow(self, stack) ==
    IF self.kind = "Call" THEN <<Ok(self.dst), Append(stack, self.push[1])>>
    ELSE IF self.kind = "Return" THEN
        <<Ok(self.dst), SubSeq(stack, 1, Len(stack) - 1)>>
    ELSE <<Ok(self.dst), stack>>

\* An Edge::invoke whose Local edge pops the stack when there is one.
EdgeInvokeLocalPops(self, stack) ==
    IF self.kind = "Call" THEN <<Ok(self.dst), Append(stack, self.push[1])>>
    ELSE IF stack = <<>> THEN
        IF self.kind = "Return" THEN <<Err(FALSE), stack>> ELSE <<Ok(self.dst), stack>>
    ELSE <<Ok(self.dst), SubSeq(stack, 1, Len(stack) - 1)>>

\* Edge::invoke: <<result, stack afterwards>>.
EdgeInvoke(self, stack) ==
    IF self.kind = "Call" THEN <<Ok(self.dst), Append(stack, self.push[1])>>
    ELSE IF self.kind = "Return" THEN
        IF stack = <<>> THEN <<Err(FALSE), stack>>
        ELSE <<Ok(self.dst), SubSeq(stack, 1, Len(stack) - 1)>>
    ELSE <<Ok(self.dst), stack>>

\* An Edge::check that checks nothing.
EdgeCheckNothing(form, self, size) == Ok(<<>>)

\* Edge::check
EdgeCheck(form, self, size) ==
    IF \A i \in IndicesSet(form, self.dst) : i < size
    THEN Ok(<<>>)
    ELSE Err(<<"OutOfBounds">>)

\* Edge::deabsurdify
EdgeDeabsurdify(form, self, size) ==
    [self EXCEPT !.dst = IndicesMapMod(form, self.dst, size)]

\* ------------------------------------------------------------------ wildcard.rs

WildcardAny(edge) == [tag |-> "Any", etc |-> Some(edge), map |-> <<>>]

WildcardSpecific(v) == [tag |-> "Specific", etc |-> None, map |-> v]

Hit(e) == <<"Hit", e>>

Miss == <<"Miss">>

Panic == <<"Panic">>

\* The fold of Wildcard::get over the entries of a Specific layer: the
\* accumulator is None, Some(v) or a failed `assert!(acc.is_none())`.
RECURSIVE SpecificFold(_, _, _, _)
SpecificFold(map, arg, i, acc) ==
    IF i > Len(map) THEN acc
    ELSE IF RangeContains(map[i][1], arg) = "Equal"
         THEN IF acc # Miss THEN Panic
              ELSE SpecificFold(map, arg, i + 1, Hit(map[i][2]))
         ELSE SpecificFold(map, arg, i + 1, acc)

\* Wildcard::get
WildcardGet(self, arg) ==
    IF self.tag = "Any" THEN Hit(self.etc[1])
    ELSE SpecificFold(self.map, arg, 1, Miss)

\* Merge for Vec<(Range, Return<Edge>)>: the entries of `other` are pushed
\* one by one, each compared (Range::union) with everything pushed so far.
RECURSIVE VecMergeFrom(_, _, _)
VecMergeFrom(self, other, j) ==
    IF j > Len(other) THEN Ok(self)
    ELSE LET rk == other[j][1]
             hits == {i \in 1..Len(self) : RangeUnion(self[i][1], rk) # None}
         IN  IF hits # {}
             THEN LET i == CHOOSE i \in hits : \A k \in hits : i <= k
                  IN  Err(<<"VecMergeConflict", RangeUnion(self[i][1], rk)[1]>>)
             ELSE VecMergeFrom(Append(self, other[j]), other, j + 1)

VecMerge(self, other) == VecMergeFrom(self, other, 1)

\* The ranges of a Specific layer, in order.
RangesOf(v) == [i \in 1..Len(v) |-> v[i][1]]

\* A merge of wildcard layers in which an Any layer absorbs any Specific
\* layer, empty or not.
WildcardMergeAnyAbsorbs(form, self, other) ==
    IF self.tag = "Any" /\ other.tag = "Any" THEN
        LET Then(e) == IF IsErr(e) THEN e ELSE Ok(WildcardAny(e[2]))
        IN  Then(EdgeMerge(form, self.etc[1], other.etc[1]))
    ELSE IF self.tag = "Any" THEN Ok(self)
    ELSE IF other.tag = "Any" THEN Ok(other)
    ELSE LET Then(v) == IF IsErr(v) THEN v ELSE Ok(WildcardSpecific(v[2]))
         IN  Then(VecMerge(self.map, other.map))

\* Merge for Wildcard.
WildcardMerge(form, self, other) ==
    IF self.tag = "Any" /\ other.tag = "Any" THEN
        LET Then(e) == IF IsErr(e) THEN e ELSE Ok(WildcardAny(e[2]))
        IN  Then(EdgeMerge(form, self.etc[1], other.etc[1]))
    ELSE IF self.tag = "Any" THEN
        IF other.map = <<>> THEN Ok(self)
        ELSE Err(<<"WildcardMergeConflict", RangesOf(other.map)>>)
    ELSE IF other.tag = "Any" THEN
        IF self.map = <<>> THEN Ok(other)
        ELSE Err(<<"WildcardMergeConflict", RangesOf(self.map)>>)
    ELSE LET Then(v) == IF IsErr(v) THEN v ELSE Ok(WildcardSpecific(v[2]))
         IN  Then(VecMerge(self.map, other.map))

\* Merge for Option<Wildcard>.
OptionMerge(form, self, other) ==
    IF self = None THEN Ok(other)
    ELSE IF other = None THEN Ok(self)
    ELSE LET Then(m) == IF IsErr(m) THEN m ELSE Ok(Some(m[2]))
         IN  Then(WildcardMerge(form, self[1], other[1]))

\* Wildcard::check on the entries of a Specific layer from index i on: each
\* range is first compared (Range::union) with the ranges before it, then
\* its edge is bounds-checked.
RECURSIVE SpecificCheckFrom(_, _, _, _)
SpecificCheckFrom(form, map, size, i) ==
    IF i > Len(map) THEN Ok(<<>>)
    ELSE LET hits == {j \in 1..(i - 1) : RangeUnion(map[j][1], map[i][1]) # None}
         IN  IF hits # {}
             THEN LET j == CHOOSE j \in hits : \A k \in hits : j <= k
                  IN  Err(<<"VecMergeConflict", RangeUnion(map[j][1], map[i][1])[1]>>)
             ELSE LET c == EdgeCheck(form, map[i][2], size)
                  IN  IF IsErr(c) THEN c
                      ELSE SpecificCheckFrom(form, map, size, i + 1)

\* Wildcard::check
WildcardCheck(form, self, size) ==
    IF self.tag = "Any" THEN EdgeCheck(form, self.etc[1], size)
    ELSE SpecificCheckFrom(form, self.map, size, 1)

\* Wildcard::values
WildcardValues(self) ==
    IF self.tag = "Any" THEN {self.etc[1]}
    ELSE {self.map[i][2] : i \in 1..Len(self.map)}

\* Wildcard::disjoint: None, or Some(None), or Some(Some(range)).
WildcardDisjoint(self, other) ==
    IF self.tag = "Any" /\ other.tag = "Any" THEN
        IF self.etc[1] # other.etc[1] THEN Some(None) ELSE None
    ELSE IF self.tag = "Any" \/ other.tag = "Any" THEN
        LET v == IF self.tag = "Any" THEN other.map ELSE self.map
        IN  IF v = <<>> THEN None ELSE Some(Some(v[1][1]))
    ELSE LET hits == {i \in 1..Len(self.map) :
                        \E j \in 1..Len(other.map) : self.map[i][1] = other.map[j][1]}
         IN  IF hits = {} THEN None
             ELSE LET i == CHOOSE i \in hits : \A k \in hits : i <= k
                  IN  Some(Some(self.map[i][1]))

\* Vec::swap_remove: the last entry takes the place of the removed one.
SwapRemove(v, i) ==
    [k \in 1..(Len(v) - 1) |-> IF k = i THEN v[Len(v)] ELSE v[k]]

\* Wildcard::remove: a panic on Any; on Specific the first entry with that
\* key goes, and a key that is not there fails the `unwrap!`.
WildcardRemove(build, self, key) ==
    IF self.tag = "Any" THEN Panic
    ELSE LET hits == {i \in 1..Len(self.map) : self.map[i][1] = key}
         IN  IF hits = {}
             THEN IF build = "debug" THEN Panic ELSE <<"Undefined">>
             ELSE Ok(WildcardSpecific(
                    SwapRemove(self.map, CHOOSE i \in hits : \A k \in hits : i <= k)))

\* The loop `for i in rm.into_iter().rev() { v.swap_remove(i) }`.
RECURSIVE SwapRemoveAll(_, _)
SwapRemoveAll(v, rm) ==
    IF rm = {} THEN v
    ELSE LET i == CHOOSE i \in rm : \A k \in rm : k <= i
         IN  SwapRemoveAll(SwapRemove(v, i), rm \ {i})

\* Wildcard::deabsurdify, with `size` an Option: every entry of a Specific
\* layer whose range Range::overlap reports against an earlier one is
\* removed, then the destinations are taken modulo the size.
WildcardDeabsurdify(form, self, size) ==
    LET Clamp(e) == IF size = None THEN e ELSE EdgeDeabsurdify(form, e, size[1])
        Clamped(v) == [i \in 1..Len(v) |-> <<v[i][1], Clamp(v[i][2])>>]
    IN  IF self.tag = "Any" THEN WildcardAny(Clamp(self.etc[1]))
        ELSE WildcardSpecific(Clamped(SwapRemoveAll(self.map,
                {i \in 1..Len(self.map) :
                    \E j \in 1..(i - 1) :
                        RangeOverlap(self.map[j][1], self.map[i][1])})))

\* ------------------------------------------------------------------ curry_opt.rs, merge.rs

CurryOpt(wildcard, none, some) ==
    [wildcard |-> wildcard, none |-> none, some |-> some]

\* An empty BTreeMap.
EmptyMap == [s \in {} |-> None]

\* CurryOpt::default
CurryOptDefault == CurryOpt(None, None, EmptyMap)

\* Option<&Wildcard>::and_then(|etc| etc.get(tail))
LayerGet(layer, token) ==
    IF layer = None THEN Miss ELSE WildcardGet(layer[1], token)

\* A lookup that consults the none layer whatever the stack top is.
GetIfNoWildcardIgnoresTop(self, head, token) ==
    LayerGet(self.none, token)

\* CurryOpt::get_if_no_wildcard: `head.map_or(default, f)` evaluates its
\* default, the lookup in the none layer, whatever `head` is, so that a panic
\* of that lookup is a panic of this one.
GetIfNoWildcard(self, head, token) ==
    IF LayerGet(self.none, token) = Panic THEN Panic
    ELSE IF head = None THEN LayerGet(self.none, token)
    ELSE IF head[1] \in DOMAIN self.some
         THEN WildcardGet(self.some[head[1]], token)
         ELSE Miss

\* CurryOpt::get; the assert_eq! of the wildcard branch is compiled only
\* with debug assertions.
CurryOptGet(build, self, head, token) ==
    LET wild == LayerGet(self.wildcard, token) IN
    IF wild = Panic THEN Panic
    ELSE IF wild # Miss THEN
        IF build = "debug" /\ GetIfNoWildcard(self, head, token) # Miss
        THEN Panic
        ELSE wild
    ELSE GetIfNoWildcard(self, head, token)

\* Merge for BTreeMap<S, Wildcard>: the keys of `other` are inserted in
\* ascending order and the first key already present is a conflict.
MapMerge(self, other) ==
    LET common == DOMAIN self \cap DOMAIN other IN
    IF common # {}
    THEN LET k == CHOOSE k \in common : \A j \in common : k <= j
         IN  Err(<<"MapMergeConflict", k, self[k], other[k]>>)
    ELSE Ok([k \in DOMAIN self \cup DOMAIN other |->
                IF k \in DOMAIN other THEN other[k] ELSE self[k]])

\* The first none/some layer that Wildcard::disjoint reports against the
\* merged wildcard layer: the `none` layer first, then `some` by key.
LayerConflict(wild, none, some) ==
    LET Overlap(etc) == WildcardDisjoint(wild, etc)
        bad == {s \in DOMAIN some : Overlap(some[s]) # None}
    IN  IF none # None /\ Overlap(none[1]) # None
        THEN Some(<<"CurryOptMergeConflict", None, Overlap(none[1])[1]>>)
        ELSE IF bad = {} THEN None
        ELSE LET s == CHOOSE s \in bad : \A t \in bad : s <= t
             IN  Some(<<"CurryOptMergeConflict", Some(s), Overlap(some[s])[1]>>)

\* Merge for CurryOpt.
CurryOptMerge(form, self, other) ==
    LET Disjoint(wildcard, none, some, overlap) ==
            IF overlap # None THEN Err(overlap[1])
            ELSE Ok(CurryOpt(wildcard, none, some))
        Layers(wildcard, none, some) ==
            IF IsErr(wildcard) THEN wildcard
            ELSE IF IsErr(none) THEN none
            ELSE IF IsErr(some) THEN some
            ELSE Disjoint(wildcard[2], none[2], some[2],
                          IF wildcard[2] = None THEN None
                          ELSE LayerConflict(wildcard[2][1], none[2], some[2]))
    IN  Layers(OptionMerge(form, self.wildcard, other.wildcard),
               OptionMerge(form, self.none, other.none),
               MapMerge(self.some, other.some))

\* CurryOpt::values: the layers, wildcard first.
CurryOptValues(self) ==
    (IF self.wildcard = None THEN {} ELSE {self.wildcard[1]})
    \cup (IF self.none = None THEN {} ELSE {self.none[1]})
    \cup {self.some[s] : s \in DOMAIN self.some}


\* CurryOpt::check: every layer is checked (wildcard, none, then some by
\* key), then the wildcard layer is compared with the none/some layers.
CurryOptCheck(form, self, size) ==
    LET Checked(layers) == [i \in 1..Len(layers) |-> WildcardCheck(form, layers[i], size)]
        Disjoint(overlap) == IF overlap # None THEN Err(overlap[1]) ELSE Ok(<<>>)
        First(results, bad) ==
            IF bad # {} THEN results[CHOOSE i \in bad : \A k \in bad : i <= k]
            ELSE Disjoint(IF self.wildcard = None THEN None
                          ELSE LayerConflict(self.wildcard[1], self.none, self.some))
        Results(results) == First(results, {i \in 1..Len(results) : IsErr(results[i])})
    IN  Results(Checked((IF self.wildcard = None THEN <<>> ELSE <<self.wildcard[1]>>)
                        \o (IF self.none = None THEN <<>> ELSE <<self.none[1]>>)
                        \o [i \in 1..Cardinality(DOMAIN self.some) |->
                              self.some[SetToSeq(DOMAIN self.some)[i]]]))

\* The loop of CurryOpt::deabsurdify on the `none` layer: while
\* Wildcard::disjoint reports a range, that range is removed from `none`;
\* when it reports no range (two different Any layers), `none` is deleted.
\* Ok(Option of the layer), or a failure of Wildcard::remove.
RECURSIVE PruneNone(_, _, _)
PruneNone(build, wild, none) ==
    LET Removed(r) == IF IsOk(r) THEN PruneNone(build, wild, Some(r[2])) ELSE r
        Reported(overlap) ==
            IF overlap = None THEN Ok(none)
            ELSE IF overlap[1] = None THEN Ok(None)
            ELSE Removed(WildcardRemove(build, none[1], overlap[1][1]))
    IN  IF none = None THEN Ok(None)
        ELSE Reported(WildcardDisjoint(wild, none[1]))

\* The loop of CurryOpt::deabsurdify on one `some` layer: while the wildcard
\* layer, or else the `none` layer, is reported against it, the reported
\* range is removed from it; a report without a range fails the `expect`.
RECURSIVE PruneSome(_, _, _, _)
PruneSome(build, wildcard, none, etc) ==
    LET Removed(r) == IF IsOk(r) THEN PruneSome(build, wildcard, none, r[2]) ELSE r
        Reported(overlap) ==
            IF overlap = None THEN Ok(etc)
            ELSE IF overlap[1] = None THEN Panic
            ELSE Removed(WildcardRemove(build, etc, overlap[1][1]))
        OrElse(first) ==
            IF first # None THEN first
            ELSE IF none = None THEN None
            ELSE WildcardDisjoint(none[1], etc)
    IN  Reported(OrElse(IF wildcard = None THEN None
                        ELSE WildcardDisjoint(wildcard[1], etc)))

\* CurryOpt::deabsurdify: Ok(the layers afterwards) or the first failure.
CurryOptDeabsurdify(build, form, self, size) ==
    LET Layer(l) == IF l = None THEN None
                    ELSE Some(WildcardDeabsurdify(form, l[1], Some(size)))
        Somes(wildcard, none) ==
            [s \in DOMAIN self.some |->
                PruneSome(build, wildcard, none,
                          WildcardDeabsurdify(form, self.some[s], Some(size)))]
        Collected(wildcard, none, some, bad) ==
            IF bad # {} THEN some[CHOOSE s \in bad : \A t \in bad : s <= t]
            ELSE Ok(CurryOpt(wildcard, none, [s \in DOMAIN some |-> some[s][2]]))
        Pruned(wildcard, none, some) ==
            Collected(wildcard, none, some, {s \in DOMAIN some : ~IsOk(some[s])})
        Wild(wildcard, none) ==
            IF ~IsOk(none) THEN none
            ELSE Pruned(wildcard, none[2], Somes(wildcard, none[2]))
        Start(wildcard, none) ==
            Wild(wildcard, IF wildcard = None THEN Ok(none)
                           ELSE PruneNone(build, wildcard[1], none))
    IN  Start(Layer(self.wildcard), Layer(self.none))

\* ------------------------------------------------------------------ state.rs

State(transitions, accepting) ==
    [transitions |-> transitions, accepting |-> accepting]

\* A merge of states that accepts only when both do.
StateMergeBothAccept(form, self, other) ==
    LET Then(t) == IF IsErr(t) THEN t
                   ELSE Ok(State(t[2], self.accepting /\ other.accepting))
    IN  Then(CurryOptMerge(form, self.transitions, other.transitions))

\* Merge for State: the tables merge, `accepting` is a logical or.
StateMerge(form, self, other) ==
    LET Then(t) == IF IsErr(t) THEN t
                   ELSE Ok(State(t[2], self.accepting \/ other.accepting))
    IN  Then(CurryOptMerge(form, self.transitions, other.transitions))

\* State::check
StateCheck(form, self, size) == CurryOptCheck(form, self.transitions, size)

\* State::deabsurdify: the transitions are deabsurdified, `accepting` stays.
StateDeabsurdify(build, form, self, size) ==
    LET Then(t) == IF IsOk(t) THEN Ok(State(t[2], self.accepting)) ELSE t
    IN  Then(CurryOptDeabsurdify(build, form, self.transitions, size))

\* ------------------------------------------------------------------ automaton.rs

Automaton(form, states, initial) ==
    [form |-> form, states |-> states, initial |-> initial]

\* A check that looks at `initial` alone.
AutomatonCheckInitialOnly(self) ==
    IF \E i \in IndicesSet(self.form, self.initial) : i >= Len(self.states)
    THEN Err(<<"OutOfBounds">>)
    ELSE Ok(<<>>)

\* Automaton::check
AutomatonCheck(self) ==
    LET size == Len(self.states) IN
    IF \E i \in IndicesSet(self.form, self.initial) : i >= size
    THEN Err(<<"OutOfBounds">>)
    ELSE LET First(results, bad) ==
                 IF bad = {} THEN Ok(<<>>)
                 ELSE results[CHOOSE k \in bad : \A j \in bad : k <= j]
             Results(results) == First(results, {k \in 1..size : IsErr(results[k])})
         IN  Results([k \in 1..size |-> StateCheck(self.form, self.states[k], size)])

\* Automaton::deabsurdify, for both forms: Ok(<<returned bool, the automaton
\* afterwards>>), or the first failure met in a state.  Without states the
\* set form empties `initial`; the single form returns false and changes
\* nothing.
AutomatonDeabsurdify(build, self) ==
    LET size == Len(self.states)
        First(states, bad) ==
            IF bad # {} THEN states[CHOOSE k \in bad : \A j \in bad : k <= j]
            ELSE Ok(<<TRUE, Automaton(self.form,
                                      [k \in 1..size |-> states[k][2]],
                                      IndicesMapMod(self.form, self.initial, size))>>)
        States(states) == First(states, {k \in 1..size : ~IsOk(states[k])})
    IN  IF size = 0
        THEN IF self.form = "set" THEN Ok(<<TRUE, Automaton("set", <<>>, {})>>)
             ELSE Ok(<<FALSE, self>>)
        ELSE States([k \in 1..size |->
                        StateDeabsurdify(build, self.form, self.states[k], size)])

\* What a failed `get!` does: a panic with debug assertions, undefined
\* behaviour (get_unchecked) without.
OutOfRange == <<"OutOfRange">>

\* An `any` that looks at no state.
AnyAcceptingNone(states, idx, i) == Ok(FALSE)

\* `all` in the place of `any`: true of no states at all.
AllAccepting(states, idx, i) ==
    IF \E k \in i..Len(idx) : idx[k] >= Len(states) THEN OutOfRange
    ELSE Ok(\A k \in i..Len(idx) : states[idx[k] + 1].accepting)

\* `states.any(|s| s.accepting)` over the indices idx from position i on:
\* the states are fetched lazily, in order, up to the first accepting one.
RECURSIVE AnyAccepting(_, _, _)
AnyAccepting(states, idx, i) ==
    IF i > Len(idx) THEN Ok(FALSE)
    ELSE IF idx[i] >= Len(states) THEN OutOfRange
    ELSE IF states[idx[i] + 1].accepting THEN Ok(TRUE)
    ELSE AnyAccepting(states, idx, i + 1)

\* merge(edges) over `states.filter_map(|s| s.transitions.get(..))`: the fold
\* of merge.rs driven by the lazy iterator of Automaton::step.  acc is the
\* Option of the edge merged so far; the first failure ends the fold.
RECURSIVE MergeEdges(_, _, _, _, _, _, _)
MergeEdges(build, self, idx, head, token, i, acc) ==
    IF i > Len(idx) THEN IF acc = None THEN <<"None">> ELSE Ok(acc[1])
    ELSE IF idx[i] >= Len(self.states) THEN OutOfRange
    ELSE LET found == CurryOptGet(build, self.states[idx[i] + 1].transitions, head, token)
         IN  IF found = Panic THEN Panic
             ELSE IF found = Miss
                  THEN MergeEdges(build, self, idx, head, token, i + 1, acc)
             ELSE IF acc = None
                  THEN MergeEdges(build, self, idx, head, token, i + 1, Some(found[2]))
             ELSE LET m == EdgeMerge(self.form, acc[1], found[2])
                  IN  IF IsErr(m) THEN m
                      ELSE MergeEdges(build, self, idx, head, token, i + 1, Some(m[2]))

\* A miss that accepts.
NoEdgeAccepts(stack) == {<<Ok(Err(TRUE)), stack>>}

\* `merge(edges)` found no edge at all: `None => return Ok(Err(false))`.
NoEdge(stack) == {<<Ok(Err(FALSE)), stack>>}

\* The outcomes of undefined behaviour in a step: a crash, or a verdict read
\* from whatever lies behind the vector.
Undefined(stack) == {<<Panic, stack>>, <<Ok(Err(TRUE)), stack>>, <<Ok(Err(FALSE)), stack>>}

\* What a failed `get!` produces in the given build.
FailedGet(build, stack) ==
    IF build = "debug" THEN {<<Panic, stack>>} ELSE Undefined(stack)

\* Automaton::step: the set of possible <<result, stack afterwards>>, where
\* result is Ok(Ok(ctrl)), Ok(Err(verdict)), Err(ill_formed) or a panic.
AutomatonStep(build, self, ctrl, stack, maybe_token) ==
    LET idx == IndicesIter(self.form, ctrl) IN
    IF maybe_token = None THEN
        IF stack # <<>> THEN {<<Ok(Err(FALSE)), stack>>}
        ELSE LET any == AnyAccepting(self.states, idx, 1)
             IN  IF any = OutOfRange THEN FailedGet(build, stack)
                 ELSE {<<Ok(Err(any[2])), stack>>}
    ELSE
        LET maybe_stack_top == IF stack = <<>> THEN None ELSE Some(stack[Len(stack)])
            mega_edge == MergeEdges(build, self, idx, maybe_stack_top, maybe_token[1], 1, None)
        IN  IF mega_edge = OutOfRange THEN FailedGet(build, stack)
            ELSE IF mega_edge = Panic THEN {<<Panic, stack>>}
            ELSE IF mega_edge = <<"None">> THEN NoEdge(stack)
            ELSE IF IsErr(mega_edge) THEN {<<mega_edge, stack>>}
            ELSE LET r == EdgeInvoke(mega_edge[2], stack)
                 IN  {<<Ok(r[1]), r[2]>>}

\* ------------------------------------------------------------------ run.rs, exec.rs

Execution(iter, ctrl, stack) == [iter |-> iter, ctrl |-> ctrl, stack |-> stack]

\* Run::run
Run(graph, input) == Execution(input, Ok(graph.initial), <<>>)

\* What a call of next returns: None, Some(Ok(token)), Some(Err(ill_formed)),
\* or nothing at all because the call panicked.
ItemNone == <<"None">>

ItemSome(x) == <<"Some", x>>

\* A next that is fused: once ctrl is a verdict it returns None.
ExecutionNextFused(build, graph, self) ==
    LET maybe_token == IF self.iter = <<>> THEN None ELSE Some(self.iter[1])
        rest == IF self.iter = <<>> THEN <<>> ELSE Tail(self.iter)
        item == IF maybe_token = None THEN ItemNone ELSE ItemSome(Ok(maybe_token[1]))
    IN  IF IsOk(self.ctrl) THEN
            {   IF o[1] = Panic THEN <<Execution(rest, Err(FALSE), self.stack), Panic>>
                ELSE IF IsErr(o[1]) THEN <<Execution(rest, Err(FALSE), self.stack), ItemSome(o[1])>>
                ELSE <<Execution(rest, o[1][2], o[2]), item>>
              : o \in AutomatonStep(build, graph, self.ctrl[2], self.stack, maybe_token) }
        ELSE {<<Execution(rest, self.ctrl, self.stack), ItemNone>>}

\* A next that leaves ctrl as it was when the step fails.
ExecutionNextKeepsCtrl(build, graph, self) ==
    LET maybe_token == IF self.iter = <<>> THEN None ELSE Some(self.iter[1])
        rest == IF self.iter = <<>> THEN <<>> ELSE Tail(self.iter)
        item == IF maybe_token = None THEN ItemNone ELSE ItemSome(Ok(maybe_token[1]))
    IN  IF IsOk(self.ctrl) THEN
            {   IF o[1] = Panic THEN <<Execution(rest, Err(FALSE), self.stack), Panic>>
                ELSE IF IsErr(o[1]) THEN <<Execution(rest, self.ctrl, self.stack), ItemSome(o[1])>>
                ELSE <<Execution(rest, o[1][2], o[2]), item>>
              : o \in AutomatonStep(build, graph, self.ctrl[2], self.stack, maybe_token) }
        ELSE {<<Execution(rest, self.ctrl, self.stack), item>>}

\* A next that takes no step once the input is exhausted.
ExecutionNextUnstepped(build, graph, self) ==
    LET maybe_token == IF self.iter = <<>> THEN None ELSE Some(self.iter[1])
        rest == IF self.iter = <<>> THEN <<>> ELSE Tail(self.iter)
        item == IF maybe_token = None THEN ItemNone ELSE ItemSome(Ok(maybe_token[1]))
    IN  IF IsOk(self.ctrl) /\ maybe_token # None THEN
            {   IF o[1] = Panic THEN <<Execution(rest, Err(FALSE), self.stack), Panic>>
                ELSE IF IsErr(o[1]) THEN <<Execution(rest, Err(FALSE), self.stack), ItemSome(o[1])>>
                ELSE <<Execution(rest, o[1][2], o[2]), item>>
              : o \in AutomatonStep(build, graph, self.ctrl[2], self.stack, maybe_token) }
        ELSE {<<Execution(rest, self.ctrl, self.stack), item>>}

\* A next that empties the stack once there is a verdict.
ExecutionNextClearsStack(build, graph, self) ==
    LET maybe_token == IF self.iter = <<>> THEN None ELSE Some(self.iter[1])
        rest == IF self.iter = <<>> THEN <<>> ELSE Tail(self.iter)
        item == IF maybe_token = None THEN ItemNone ELSE ItemSome(Ok(maybe_token[1]))
    IN  IF IsOk(self.ctrl) THEN
            {   IF o[1] = Panic THEN <<Execution(rest, Err(FALSE), self.stack), Panic>>
                ELSE IF IsErr(o[1]) THEN <<Execution(rest, Err(FALSE), self.stack), ItemSome(o[1])>>
                ELSE <<Execution(rest, o[1][2], o[2]), item>>
              : o \in AutomatonStep(build, graph, self.ctrl[2], self.stack, maybe_token) }
        ELSE {<<Execution(rest, self.ctrl, <<>>), item>>}

\* Execution::next: the set of possible <<execution afterwards, item>>.
ExecutionNext(build, graph, self) ==
    LET maybe_token == IF self.iter = <<>> THEN None ELSE Some(self.iter[1])
        rest == IF self.iter = <<>> THEN <<>> ELSE Tail(self.iter)
        item == IF maybe_token = None THEN ItemNone ELSE ItemSome(Ok(maybe_token[1]))
    IN  IF IsOk(self.ctrl) THEN
            {   IF o[1] = Panic THEN <<Execution(rest, Err(FALSE), self.stack), Panic>>
                ELSE IF IsErr(o[1]) THEN <<Execution(rest, Err(FALSE), self.stack), ItemSome(o[1])>>
                ELSE <<Execution(rest, o[1][2], o[2]), item>>
              : o \in AutomatonStep(build, graph, self.ctrl[2], self.stack, maybe_token) }
        ELSE {<<Execution(rest, self.ctrl, self.stack), item>>}


\* ------------------------------------------------------------------ subc.rs

\* A generalize_edge that forgets the destination.
GeneralizeEdgeNowhere(d) == [d EXCEPT !.dst = {}]

\* generalize_edge
GeneralizeEdge(d) == [d EXCEPT !.dst = {d.dst}]

\* generalize_wildcard
GeneralizeWildcard(d) ==
    IF d.tag = "Any" THEN WildcardAny(GeneralizeEdge(d.etc[1]))
    ELSE WildcardSpecific([i \in 1..Len(d.map) |->
                              <<d.map[i][1], GeneralizeEdge(d.map[i][2])>>])

\* generalize_curry_opt
GeneralizeCurryOpt(d) ==
    CurryOpt(IF d.wildcard = None THEN None ELSE Some(GeneralizeWildcard(d.wildcard[1])),
             IF d.none = None THEN None ELSE Some(GeneralizeWildcard(d.none[1])),
             [s \in DOMAIN d.some |-> GeneralizeWildcard(d.some[s])])

\* A generalization that starts nowhere: the initial control is empty.
GeneralizeNoInitial(self) ==
    Automaton("set",
              [k \in 1..Len(self.states) |->
                  State(GeneralizeCurryOpt(self.states[k].transitions),
                        self.states[k].accepting)],
              {})

\* Deterministic::generalize
Generalize(self) ==
    Automaton("set",
              [k \in 1..Len(self.states) |->
                  State(GeneralizeCurryOpt(self.states[k].transitions),
                        self.states[k].accepting)],
              {self.initial})

\* Ord for BTreeSet<usize>: lexicographic on the ascending elements.
SubsetLess(a, b) ==
    LET x == SetToSeq(a)
        y == SetToSeq(b)
    IN  \E k \in 1..(Len(y)) :
            /\ \A j \in 1..(k - 1) : j <= Len(x) /\ x[j] = y[j]
            /\ (k > Len(x) \/ (k <= Len(x) /\ x[k] < y[k]))

\* A set of subsets as the sorted (and so deduplicated) vector.
RECURSIVE SortSubsets(_)
SortSubsets(ss) ==
    IF ss = {} THEN <<>>
    ELSE LET m == CHOOSE a \in ss : \A b \in ss \ {a} : SubsetLess(a, b)
         IN  <<m>> \o SortSubsets(ss \ {m})

\* A binary search that counts positions from one.
BinarySearchOneBased(ordering, x) ==
    LET at == {i \in 1..Len(ordering) : ordering[i] = x}
    IN  IF at = {} THEN None ELSE Some(CHOOSE i \in at : TRUE)

\* slice::binary_search on a sorted vector without duplicates: the 0-based
\* position, or None.
BinarySearch(ordering, x) ==
    LET at == {i \in 1..Len(ordering) : ordering[i] = x}
    IN  IF at = {} THEN None ELSE Some((CHOOSE i \in at : TRUE) - 1)

\* A state for the empty subset that accepts.
DeadStateAccepting ==
    State(CurryOpt(Some(WildcardAny(EdgeLocal({}, "|x| x"))), None, EmptyMap), TRUE)

\* The state that explore installs for the empty subset.
DeadState ==
    State(CurryOpt(Some(WildcardAny(EdgeLocal({}, "|x| x"))), None, EmptyMap), FALSE)

\* merge(self.get_states(subset)): None for the empty subset, else the fold
\* of Merge for State over the states in ascending index order.
RECURSIVE MergeStates(_, _, _, _)
MergeStates(self, idx, i, acc) ==
    IF i > Len(idx) THEN IF acc = None THEN <<"None">> ELSE Ok(acc[1])
    ELSE IF idx[i] >= Len(self.states) THEN OutOfRange
    ELSE LET Rest(m) == IF IsErr(m) THEN m
                        ELSE MergeStates(self, idx, i + 1, Some(m[2]))
         IN  Rest(IF acc = None THEN Ok(self.states[idx[i] + 1])
                  ELSE StateMerge(self.form, acc[1], self.states[idx[i] + 1]))

\* The destinations of all edges of a state.
StateDsts(state) ==
    {e.dst : e \in UNION {WildcardValues(w) : w \in CurryOptValues(state.transitions)}}

\* Nondeterministic::explore, with the fold over the destinations: the map
\* afterwards as Ok(map), or the first error.
RECURSIVE Explore(_, _, _)
RECURSIVE ExploreAll(_, _, _, _)
Explore(self, subsets_as_states, subset) ==
    IF subset \in DOMAIN subsets_as_states THEN Ok(subsets_as_states)
    ELSE LET Recurse(mega_state) ==
                 ExploreAll(self,
                            [q \in DOMAIN subsets_as_states \cup {subset} |->
                                IF q = subset THEN mega_state ELSE subsets_as_states[q]],
                            SortSubsets(StateDsts(mega_state)), 1)
             Merged(merged) ==
                 IF merged = OutOfRange THEN OutOfRange
                 ELSE IF merged = <<"None">> THEN Recurse(DeadState)
                 ELSE IF IsErr(merged) THEN merged
                 ELSE Recurse(merged[2])
         IN  Merged(MergeStates(self, SetToSeq(subset), 1, None))

ExploreAll(self, subsets_as_states, dsts, i) ==
    IF i > Len(dsts) THEN Ok(subsets_as_states)
    ELSE LET Rest(r) == IF r = OutOfRange \/ IsErr(r) THEN r
                        ELSE ExploreAll(self, r[2], dsts, i + 1)
         IN  Rest(Explore(self, subsets_as_states, dsts[i]))

\* fix_indices_edge: None when the binary search fails.
FixIndicesEdge(nd, ordering) ==
    [nd EXCEPT !.dst = BinarySearch(ordering, nd.dst)[1]]

\* fix_indices_wildcard
FixIndicesWildcard(nd, ordering) ==
    IF nd.tag = "Any" THEN WildcardAny(FixIndicesEdge(nd.etc[1], ordering))
    ELSE WildcardSpecific([i \in 1..Len(nd.map) |->
                              <<nd.map[i][1], FixIndicesEdge(nd.map[i][2], ordering)>>])

\* fix_indices_curry_opt
FixIndicesCurryOpt(nd, ordering) ==
    CurryOpt(IF nd.wildcard = None THEN None
             ELSE Some(FixIndicesWildcard(nd.wildcard[1], ordering)),
             IF nd.none = None THEN None
             ELSE Some(FixIndicesWildcard(nd.none[1], ordering)),
             [s \in DOMAIN nd.some |-> FixIndicesWildcard(nd.some[s], ordering)])

\* Nondeterministic::determinize: Ok(deterministic automaton), Err(ill_formed),
\* or OutOfRange when a `get!` or an `unwrap!` of the construction fails.
Determinize(self) ==
    LET Fixed(subsets_as_states, ordering) ==
            IF \/ BinarySearch(ordering, self.initial) = None
               \/ \E q \in DOMAIN subsets_as_states :
                     \E d \in StateDsts(subsets_as_states[q]) :
                        BinarySearch(ordering, d) = None
            THEN OutOfRange
            ELSE Ok(Automaton("single",
                              [k \in 1..Len(ordering) |->
                                  State(FixIndicesCurryOpt(
                                            subsets_as_states[ordering[k]].transitions,
                                            ordering),
                                        subsets_as_states[ordering[k]].accepting)],
                              BinarySearch(ordering, self.initial)[1]))
        Explored(explored) ==
            IF explored = OutOfRange \/ IsErr(explored) THEN explored
            ELSE Fixed(explored[2], SortSubsets(DOMAIN explored[2]))
        Checked(checked) ==
            IF IsErr(checked) THEN checked
            ELSE Explored(Explore(self, [q \in {} |-> DeadState], self.initial))
    IN  Checked(AutomatonCheck(self))


\* ------------------------------------------------------------------ the automata and inputs

\* The tokens of the matched-parentheses examples: '(' and ')'.
LeftParen == 40

RightParen == 41

Tokens == {LeftParen, RightParen}

\* Symbol::Paren, the one stack symbol of the examples.
Paren == 0

\* call!(|x| x)
Identity == "|x| x"

\* One index as a control value of the given form.
Single(form, i) == IF form = "set" THEN {i} ELSE i

\* The state of examples/matched_parentheses_nondeterministic (parser), at
\* index i: '(' calls back to i pushing Paren, ')' returns to i when Paren
\* is on top of the stack.
ParenState(form, i) ==
    State(CurryOpt(
            Some(WildcardSpecific(<<
                <<RangeUnit(LeftParen), EdgeCall(Single(form, i), Identity, Paren)>> >>)),
            None,
            [s \in {Paren} |-> WildcardSpecific(<<
                <<RangeUnit(RightParen), EdgeReturn(Single(form, i), Identity)>> >>)]),
          TRUE)

\* The states an automaton of n states may have at index i.  Destinations
\* are i itself, i + 1 (out of range at the last index), 0, n or, in the
\* set form, no state.
StateChoices(form, i, n) ==
    { State(CurryOptDefault, FALSE),
      ParenState(form, i),
      \* any token, whatever the stack: a local move to state 0
      State(CurryOpt(Some(WildcardAny(EdgeLocal(Single(form, 0), Identity))),
                     None, EmptyMap), TRUE),
      \* the same edge, but only on an empty stack
      State(CurryOpt(None,
                     Some(WildcardAny(EdgeLocal(Single(form, 0), Identity))),
                     EmptyMap), FALSE),
      \* two ranges that share ')' and differ in their first value
      State(CurryOpt(Some(WildcardSpecific(<<
                <<Range(LeftParen, RightParen), EdgeLocal(Single(form, i), Identity)>>,
                <<RangeUnit(RightParen), EdgeLocal(Single(form, i), Identity)>> >>)),
                     None, EmptyMap), FALSE),
      \* '(' calls on to the next index, pushing Paren
      State(CurryOpt(Some(WildcardSpecific(<<
                <<RangeUnit(LeftParen), EdgeCall(Single(form, i + 1), Identity, Paren)>> >>)),
                     None, EmptyMap), FALSE),
      \* '(' calls on to no state at all (to the next index in the single
      \* form, which has no such control value), pushing Paren
      State(CurryOpt(Some(WildcardSpecific(<<
                <<RangeUnit(LeftParen),
                  EdgeCall(IF form = "set" THEN {} ELSE i + 1, Identity, Paren)>> >>)),
                     None, EmptyMap), FALSE),
      \* ')' returns on an empty stack
      State(CurryOpt(None,
                     Some(WildcardSpecific(<<
                <<RangeUnit(RightParen), EdgeReturn(Single(form, i), Identity)>> >>)),
                     EmptyMap), TRUE),
      \* two ranges with the same first value, the second edge out of range
      State(CurryOpt(Some(WildcardSpecific(<<
                <<RangeUnit(LeftParen), EdgeLocal(Single(form, i), Identity)>>,
                <<Range(LeftParen, RightParen), EdgeLocal(Single(form, n), Identity)>> >>)),
                     None, EmptyMap), FALSE) }

\* The state vectors of length n.
StateVectors(form, n) ==
    {v \in [1..n -> UNION {StateChoices(form, i, n) : i \in 0..(n - 1)}] :
        \A k \in 1..n : v[k] \in StateChoices(form, k - 1, n)}

\* The initial controls drawn for n states: nothing, state 0, every state,
\* and the index n, which is out of range.
InitialChoices(form, n) ==
    IF form = "set" THEN {{}, {0}, 0..(n - 1), {n}} ELSE {0, n}

Automata ==
    UNION {{Automaton(form, v, initial) :
                v \in StateVectors(form, n), initial \in InitialChoices(form, n)}
            : form \in {"set", "single"}, n \in 0..MaxStates}

\* The one-state parser of the examples.
Parser == Automaton("set", <<ParenState("set", 0)>>, {0})

Inputs == UNION {[1..n -> Tokens] : n \in 0..MaxLen}

\* The reference counter of the example (fn accept): add one on '(', take
\* one away on ')' and reject at once on underflow; accept iff it ends at 0.
RECURSIVE ReferenceFrom(_, _, _)
ReferenceFrom(iter, k, i) ==
    IF k > Len(iter) THEN i = 0
    ELSE IF iter[k] = LeftParen THEN ReferenceFrom(iter, k + 1, i + 1)
    ELSE IF i = 0 THEN FALSE
    ELSE ReferenceFrom(iter, k + 1, i - 1)

ReferenceAccept(iter) == ReferenceFrom(iter, 1, 0)

\* ------------------------------------------------------------------ automaton.rs: accept

\* Automaton::accept: the set of possible <<result, run afterwards>>; the
\* loop calls next until it returns None or an IllFormed item.  The result
\* is Ok(verdict), Err(ill_formed), a panic, or <<"Never">> when the
\* never!() branch is entered.
RECURSIVE AcceptLoop(_, _, _)
AcceptLoop(build, self, run) ==
    UNION { IF o[2] = Panic THEN {<<Panic, o[1]>>}
            ELSE IF o[2] = ItemNone
                 THEN IF IsErr(o[1].ctrl) THEN {<<Ok(o[1].ctrl[2]), o[1]>>}
                      ELSE {<<(<<"Never">>), o[1]>>}
            ELSE IF IsErr(o[2][2]) THEN {<<o[2][2], o[1]>>}
            ELSE AcceptLoop(build, self, o[1])
          : o \in ExecutionNext(build, self, run) }

AutomatonAccept(build, self, input) == AcceptLoop(build, self, Run(self, input))

\* What determinize does in the given build: a failed `get!` or `unwrap!`
\* panics with debug assertions and is undefined behaviour without.
DeterminizeOutcome(build, self) ==
    LET r == Determinize(self)
    IN  IF r # OutOfRange THEN r
        ELSE IF build = "debug" THEN Panic ELSE <<"Undefined">>

\* ------------------------------------------------------------------ alphabet.rs, nond/, run.rs

\* Alphabet::kind, which the user of the library supplies: '(' is a call
\* token and ')' a return token.
TokenKind(token) == IF token = LeftParen THEN "Call" ELSE "Return"

\* nond::State::check_consistency: the transitions are visited in the order
\* of their tokens and the first edge whose kind is not the kind of its
\* token is reported as (position, token kind, edge kind).
StateCheckConsistency(self) ==
    LET keys == SetToSeq(DOMAIN self.transitions)
        At(bad) ==
            IF bad = {} THEN Ok(<<>>)
            ELSE LET i == CHOOSE i \in bad : \A k \in bad : i <= k
                 IN  Err(<<i - 1, TokenKind(keys[i]), self.transitions[keys[i]].kind>>)
    IN  At({i \in 1..Len(keys) :
                TokenKind(keys[i]) # self.transitions[keys[i]].kind})

\* nond::Automaton::check_consistency: the first state that reports.
AutomatonCheckConsistency(self) ==
    LET First(results, bad) ==
            IF bad = {} THEN Ok(<<>>)
            ELSE results[CHOOSE k \in bad : \A j \in bad : k <= j]
        Results(results) ==
            First(results, {k \in 1..Len(results) : IsErr(results[k])})
    IN  Results([k \in 1..Len(self.states) |-> StateCheckConsistency(self.states[k])])

\* Run::run with its guard, which is compiled only with debug assertions
\* (or in tests): a panic when check_consistency reports, and otherwise the
\* execution, which `run` returns as it is (not inside a Result).
RunGuarded(build, graph, input) ==
    IF build = "debug" /\ IsErr(AutomatonCheckConsistency(graph)) THEN Panic
    ELSE <<"Execution", [iter |-> input, ctrl |-> Ok(graph.initial)]>>

\* ------------------------------------------------------------------ the program

VARIABLES
    build,      \* "debug" (debug assertions on) or "release"
    left,       \* the automaton under test
    input,      \* the input sequence
    checked,    \* Option of left.check()
    nd,         \* Option of the nondeterministic automaton given to determinize
    det,        \* Option of the outcome of nd.determinize()
    acc,        \* per side, Option of the outcome of accept(input)
    run,        \* Option of the execution being iterated
    items,      \* what the calls of run.next() returned so far
    last,       \* Option of the execution as it was before the latest call of next
    pc,         \* what the driver does next
    args,       \* the arguments of the library function applied on its own
    out         \* Option of what that function returned

vars == <<build, left, input, checked, nd, det, acc, run, items, last, pc, args, out>>

\* The automaton of a side: the one under test, or the determinized one.
Graph(side) == IF side = "left" THEN left ELSE det[1][2]

Determinized == det # None /\ IsOk(det[1])

Init ==
    /\ build \in {"debug", "release"}
    /\ left \in Automata
    /\ input \in Inputs
    /\ checked = None
    /\ nd = IF left.form = "set" THEN Some(left) ELSE None
    /\ det = None
    /\ acc = [side \in {"left", "right"} |-> None]
    /\ run = None
    /\ items = <<>>
    /\ last = None
    /\ pc = "check"
    /\ args = <<"none">>
    /\ out = None

\* left.check()
Check ==
    /\ pc = "check"
    /\ checked' = Some(AutomatonCheck(left))
    /\ pc' = IF left.form = "set" THEN "determinize" ELSE "generalize"
    /\ UNCHANGED <<args, out, build, left, input, nd, det, acc, run, items, last>>

\* left.generalize()
GeneralizeLeft ==
    /\ pc = "generalize"
    /\ nd' = Some(Generalize(left))
    /\ pc' = "determinize"
    /\ UNCHANGED <<args, out, build, left, input, checked, det, acc, run, items, last>>

\* nd.determinize()
DeterminizeNd ==
    /\ pc = "determinize"
    /\ det' = Some(DeterminizeOutcome(build, nd[1]))
    /\ pc' = "accept_left"
    /\ UNCHANGED <<args, out, build, left, input, checked, nd, acc, run, items, last>>

\* accept(input) on the automaton of a side, as test.rs calls it on the
\* nondeterministic automaton and then on the determinized one.
Accept(side) ==
    /\ pc = "accept_" \o side
    /\ \E o \in AutomatonAccept(build, Graph(side), input) :
           acc' = [acc EXCEPT ![side] = Some([result |-> o[1], run |-> o[2]])]
    /\ pc' = IF side = "left" /\ Determinized THEN "accept_right" ELSE "run_left"
    /\ UNCHANGED <<args, out, build, left, input, checked, nd, det, run, items, last>>

\* input.run(graph), the start of `while run.next().is_some() {}`
RunStart(side) ==
    /\ pc = "run_" \o side
    /\ run' = Some(Run(Graph(side), input))
    /\ items' = <<>>
    /\ last' = None
    /\ pc' = "next_" \o side
    /\ UNCHANGED <<args, out, build, left, input, checked, nd, det, acc>>

\* One call of run.next() by that loop, which ends at None (or at a panic).
Next_(side) ==
    /\ pc = "next_" \o side
    /\ \E o \in ExecutionNext(build, Graph(side), run[1]) :
        /\ run' = Some(o[1])
        /\ items' = Append(items, o[2])
        /\ last' = run
        /\ pc' = IF o[2] # ItemNone /\ o[2] # Panic THEN pc
                 ELSE IF side = "left" /\ Determinized THEN "run_right"
                 ELSE "done"
    /\ UNCHANGED <<args, out, build, left, input, checked, nd, det, acc>>

Next ==
    \/ Check
    \/ GeneralizeLeft
    \/ DeterminizeNd
    \/ Accept("left")
    \/ Accept("right")
    \/ RunStart("left")
    \/ RunStart("right")
    \/ Next_("left")
    \/ Next_("right")

Spec == Init /\ [][Next]_vars

\* ------------------------------------------------------------------ the library functions on their own

\* merge.rs, fn merge: the fold of Merge::merge over an iterator, which
\* stops at the first failure; None when the iterator is empty.
RECURSIVE MergeFrom(_, _, _, _)
MergeFrom(form, edges, i, merged) ==
    IF i > Len(edges) \/ IsErr(merged) THEN merged
    ELSE MergeFrom(form, edges, i + 1, EdgeMerge(form, merged[2], edges[i]))

Merge(form, edges) ==
    IF edges = <<>> THEN None ELSE Some(MergeFrom(form, edges, 2, Ok(edges[1])))

\* The most edges folded at once.
MaxFold == 3

\* The most entries of a Specific layer given to Wildcard::merge.
MaxEntries == 2

\* The most states of an automaton given to deabsurdify or to run.
MaxAbsurd == 1

\* The values of the ranges given to the range functions are 0..MaxValue.
MaxValue == 2

\* A second action, call!(::core::convert::identity), and a second stack
\* symbol.
ConvertIdentity == "::core::convert::identity"

Bracket == 1

EdgeChoices(form) ==
    {EdgeCall(Single(form, d), c, p) :
        d \in 0..1, c \in {Identity, ConvertIdentity}, p \in {Paren, Bracket}}
    \cup {EdgeReturn(Single(form, d), c) : d \in 0..1, c \in {Identity, ConvertIdentity}}
    \cup {EdgeLocal(Single(form, d), c) : d \in 0..1, c \in {Identity, ConvertIdentity}}

IndexChoices(form) == IF form = "set" THEN SUBSET (0..2) ELSE 0..2

\* Any layers and Specific layers of up to MaxEntries entries.
WildcardChoices(form) ==
    {WildcardAny(e) : e \in {EdgeLocal(Single(form, 0), Identity),
                             EdgeReturn(Single(form, 1), Identity)}}
    \cup UNION {{WildcardSpecific(v) :
                    v \in [1..n -> {RangeUnit(LeftParen), Range(LeftParen, RightParen),
                                    RangeUnit(RightParen)}
                                   \X {EdgeLocal(Single(form, 0), Identity),
                                        EdgeReturn(Single(form, 1), Identity)}]}
                : n \in 0..MaxEntries}

\* The layers of the states given to deabsurdify: destinations in and out
\* of range, ranges that overlap, layers that shadow one another.
AbsurdLayers(form, n) ==
    { WildcardAny(EdgeLocal(Single(form, n), Identity)),
      WildcardAny(EdgeReturn(Single(form, 0), Identity)),
      WildcardSpecific(<< <<Range(LeftParen, RightParen),
                            EdgeLocal(Single(form, n + 1), Identity)>> >>),
      WildcardSpecific(<< <<RangeUnit(RightParen), EdgeLocal(Single(form, 0), Identity)>>,
                          <<Range(LeftParen, RightParen),
                            EdgeCall(Single(form, 2 * n), Identity, Paren)>> >>) }

AbsurdStates(form, n) ==
    {State(CurryOpt(w, e, s), b) :
        w \in {None} \cup {Some(l) : l \in AbsurdLayers(form, n)},
        e \in {None} \cup {Some(l) : l \in AbsurdLayers(form, n)},
        s \in {EmptyMap} \cup {[k \in {Paren} |-> l] : l \in AbsurdLayers(form, n)},
        b \in {FALSE}}

\* The initial controls of an automaton of n states given to deabsurdify.
AbsurdInitials(form, n) ==
    IF form = "set" THEN {{}, {n}, {0, n + 1}} ELSE {0, n + 1}

\* Automata over the kinded alphabet: each token has no edge or an edge of
\* one of the three kinds.
KindedStates ==
    UNION {{[transitions |-> t, accepting |-> TRUE] :
                t \in [d -> {[kind |-> k, dst |-> {0}] : k \in {"Call", "Return", "Local"}}]}
            : d \in SUBSET Tokens}

\* What is drawn: <<the function, the form of the control values, the
\* arguments the function is applied to>>.
DrawMergeEdges ==
    \E form \in {"set", "single"}, n \in 1..MaxFold :
        \E v \in [1..n -> EdgeChoices(form)] :
            args = <<"merge_edges", form, [edges |-> v]>>

DrawMergeIndices ==
    \E form \in {"set", "single"} :
        \E a \in IndexChoices(form), b \in IndexChoices(form) :
            args = <<"merge_indices", form, [self |-> a, other |-> b]>>

DrawMergeWildcards ==
    \E form \in {"set", "single"} :
        \E a \in WildcardChoices(form), b \in WildcardChoices(form) :
            args = <<"merge_wildcards", form, [self |-> a, other |-> b]>>

DrawDeabsurdify ==
    \E form \in {"set", "single"}, b \in {"debug", "release"}, n \in 0..MaxAbsurd :
        \E v \in [1..n -> AbsurdStates(form, n)], initial \in AbsurdInitials(form, n) :
            args = <<"deabsurdify", form,
                     [build |-> b, graph |-> Automaton(form, v, initial)]>>

DrawRun ==
    \E b \in {"debug", "release"}, n \in 1..MaxAbsurd, i \in {<<>>, <<LeftParen>>} :
        \E v \in [1..n -> KindedStates] :
            args = <<"run", "set",
                     [build |-> b, graph |-> [states |-> v, initial |-> {0}], iter |-> i]>>

\* The stack-top layers given to CurryOpt's merge: each of the three
\* layers is absent or one of these.
MergeLayers(form) ==
    { WildcardAny(EdgeLocal(Single(form, 0), Identity)),
      WildcardAny(EdgeReturn(Single(form, 1), Identity)),
      WildcardSpecific(<< <<Range(LeftParen, RightParen),
                            EdgeLocal(Single(form, 0), Identity)>> >>),
      WildcardSpecific(<< <<RangeUnit(RightParen),
                            EdgeLocal(Single(form, 0), Identity)>> >>) }

CurryOptChoices(form) ==
    {CurryOpt(w, e, s) :
        w \in {None} \cup {Some(l) : l \in MergeLayers(form)},
        e \in {None} \cup {Some(l) : l \in MergeLayers(form)},
        s \in {EmptyMap} \cup {[k \in {Paren} |-> l] : l \in MergeLayers(form)}}

DrawMergeCurryOpts ==
    \E form \in {"set", "single"} :
        \E a \in CurryOptChoices(form), b \in CurryOptChoices(form) :
            args = <<"merge_curry_opts", form, [self |-> a, other |-> b]>>

\* Two ranges, whatever their `first` and `last` (the fields are public),
\* and two values.
DrawRanges ==
    \E a \in (0..MaxValue) \X (0..MaxValue), b \in (0..MaxValue) \X (0..MaxValue) :
        \E v \in 0..MaxValue, u \in 0..MaxValue :
            args = <<"range", "set",
                     [self |-> Range(a[1], a[2]), other |-> Range(b[1], b[2]),
                      value |-> v, unit |-> u]>>

\* The layers of the stack-top layers given to CurryOpt::get: those above,
\* and a layer two ranges of which contain ')'.
LookupLayers ==
    MergeLayers("set")
    \cup { WildcardSpecific(<< <<Range(LeftParen, RightParen),
                                 EdgeCall({0}, Identity, Paren)>>,
                               <<RangeUnit(RightParen),
                                 EdgeReturn({1}, Identity)>> >>) }

\* A stack-top layer, the top of the stack (or none) and a token.
DrawGet ==
    \E b \in {"debug", "release"}, head \in {None, Some(Paren), Some(Bracket)},
       token \in Tokens :
        \E w \in {None} \cup {Some(l) : l \in LookupLayers},
           e \in {None} \cup {Some(l) : l \in LookupLayers},
           s \in {EmptyMap} \cup {[k \in {Paren} |-> l] : l \in LookupLayers} :
            args = <<"get", "set",
                     [build |-> b, self |-> CurryOpt(w, e, s), head |-> head,
                      token |-> token]>>

\* The function applied, the form, and the arguments.
Fn == args[1]

Form == args[2]

To == args[3]

InitLibrary ==
    /\ \/ DrawMergeEdges
       \/ DrawMergeIndices
       \/ DrawMergeWildcards
       \/ DrawDeabsurdify
       \/ DrawRun
       \/ DrawMergeCurryOpts
       \/ DrawRanges
       \/ DrawGet
    /\ out = None
    /\ build = "debug"
    /\ left = Parser
    /\ input = <<>>
    /\ checked = None
    /\ nd = None
    /\ det = None
    /\ acc = [side \in {"left", "right"} |-> None]
    /\ run = None
    /\ items = <<>>
    /\ last = None
    /\ pc = "library"

\* merge(edges)
MergeEdgesOf ==
    /\ Fn = "merge_edges" /\ out = None
    /\ out' = Some(Merge(Form, To.edges))
    /\ UNCHANGED <<args, build, left, input, checked, nd, det, acc, run, items, last, pc>>

\* self.merge(&other) on two control values
MergeIndices ==
    /\ Fn = "merge_indices" /\ out = None
    /\ out' = Some(IndicesMerge(Form, To.self, To.other))
    /\ UNCHANGED <<args, build, left, input, checked, nd, det, acc, run, items, last, pc>>

\* self.merge(&other) on two wildcard layers
MergeWildcards ==
    /\ Fn = "merge_wildcards" /\ out = None
    /\ out' = Some(WildcardMerge(Form, To.self, To.other))
    /\ UNCHANGED <<args, build, left, input, checked, nd, det, acc, run, items, last, pc>>

\* graph.deabsurdify() and then, when that returned, graph.check()
Deabsurdify ==
    /\ Fn = "deabsurdify" /\ out = None
    /\ LET Then(d) == [deabsurdify |-> d,
                       check |-> IF IsOk(d) THEN Some(AutomatonCheck(d[2][2])) ELSE None]
       IN  out' = Some(Then(AutomatonDeabsurdify(To.build, To.graph)))
    /\ UNCHANGED <<args, build, left, input, checked, nd, det, acc, run, items, last, pc>>

\* iter.run(&graph) on an automaton over the kinded alphabet
RunKinded ==
    /\ Fn = "run" /\ out = None
    /\ out' = Some(RunGuarded(To.build, To.graph, To.iter))
    /\ UNCHANGED <<args, build, left, input, checked, nd, det, acc, run, items, last, pc>>

\* self.merge(&other) on two stack-top layers
MergeCurryOpts ==
    /\ Fn = "merge_curry_opts" /\ out = None
    /\ out' = Some(CurryOptMerge(Form, To.self, To.other))
    /\ UNCHANGED <<args, build, left, input, checked, nd, det, acc, run, items, last, pc>>

\* The functions of Range: contains, overlap (both ways round), union, and
\* contains on a unit range.
Ranges ==
    /\ Fn = "range" /\ out = None
    /\ out' = Some([contains |-> RangeContains(To.self, To.value),
                    overlap |-> RangeOverlap(To.self, To.other),
                    flipped |-> RangeOverlap(To.other, To.self),
                    union |-> RangeUnion(To.self, To.other),
                    unit |-> RangeContains(RangeUnit(To.unit), To.value)])
    /\ UNCHANGED <<args, build, left, input, checked, nd, det, acc, run, items, last, pc>>

\* self.get((head, (token, ())))
Get ==
    /\ Fn = "get" /\ out = None
    /\ out' = Some(CurryOptGet(To.build, To.self, To.head, To.token))
    /\ UNCHANGED <<args, build, left, input, checked, nd, det, acc, run, items, last, pc>>

NextLibrary ==
    \/ Get
    \/ MergeCurryOpts
    \/ Ranges
    \/ MergeEdgesOf
    \/ MergeIndices
    \/ MergeWildcards
    \/ Deabsurdify
    \/ RunKinded

Library == InitLibrary /\ [][NextLibrary]_vars

\* ------------------------------------------------------------------ subc.rs: determinize, one call of explore at a time

\* An entry that is always vacant: every subset is merged again.
VacantAlways(subsets_as_states, subset) == TRUE

\* `let Entry::Vacant(entry) = subsets_as_states.entry(subset.clone())`
Vacant(subsets_as_states, subset) == subset \notin DOMAIN subsets_as_states

\* merge(self.get_states(subset)) depends on the automaton and the subset
\* alone: it is tabulated, for every set of indices of the automaton, when
\* the automaton is drawn.
MergeTable(graph) ==
    [subset \in SUBSET (0..(Len(graph.states) - 1)) |->
        MergeStates(graph, SetToSeq(subset), 1, None)]

\* merge(self.get_states(subset)), looked up where it is tabulated.
MergeOf(graph, table, subset) ==
    IF subset \in DOMAIN table THEN table[subset]
    ELSE MergeStates(graph, SetToSeq(subset), 1, None)

\* A state whose edge on '(' calls on to every state at once, pushing Paren.
ForkState(n) ==
    State(CurryOpt(Some(WildcardSpecific(<<
              <<RangeUnit(LeftParen), EdgeCall(0..(n - 1), Identity, Paren)>> >>)),
                   None, EmptyMap), FALSE)

\* The state vectors of length n that start with that state.
ForkVectors(n) ==
    IF n = 0 THEN {}
    ELSE {[v EXCEPT ![1] = ForkState(n)] : v \in StateVectors("set", n)}

\* The nondeterministic automata given to determinize.
DrawDeterminize ==
    \E n \in 0..MaxStates :
        \E v \in StateVectors("set", n) \cup ForkVectors(n),
           initial \in InitialChoices("set", n) :
            args = <<"determinize", "set",
                     [graph |-> Automaton("set", v, initial),
                      merge |-> MergeTable(Automaton("set", v, initial))]>>

InitExploration ==
    /\ DrawDeterminize
    /\ out = None
    /\ build = "debug"
    /\ left = Parser
    /\ input = <<>>
    /\ checked = None
    /\ nd = None
    /\ det = None
    /\ acc = [side \in {"left", "right"} |-> None]
    /\ run = None
    /\ items = <<>>
    /\ last = None
    /\ pc = "library"

\* The progress of determinize: the subset map, the calls of explore still
\* to be made (the next one first), the subsets merged and inserted so far
\* in the order of their insertion, and what explore returned to determinize
\* once it has.
Exploring(subsets_as_states, calls, merged, returned) ==
    [subsets_as_states |-> subsets_as_states, calls |-> calls,
     merged |-> merged, returned |-> returned]

\* A determinize that explores without checking.
DeterminizeUnchecked ==
    /\ Fn = "determinize" /\ out = None
    /\ out' = Some(Exploring([q \in {} |-> DeadState], <<To.graph.initial>>, <<>>, None))
    /\ UNCHANGED <<args, build, left, input, checked, nd, det, acc, run, items, last, pc>>

\* self.check()?, and then the call self.explore(.., self.initial.clone())
DeterminizeCheck ==
    /\ Fn = "determinize" /\ out = None
    /\ LET Checked(c) ==
               IF IsErr(c) THEN Exploring([q \in {} |-> DeadState], <<>>, <<>>, Some(c))
               ELSE Exploring([q \in {} |-> DeadState], <<To.graph.initial>>, <<>>, None)
       IN  out' = Some(Checked(AutomatonCheck(To.graph)))
    /\ UNCHANGED <<args, build, left, input, checked, nd, det, acc, run, items, last, pc>>

\* A call of explore on a subset that has its entry: the early return.
ExploreSeen ==
    /\ Fn = "determinize" /\ out # None
    /\ out[1].returned = None /\ out[1].calls # <<>>
    /\ ~Vacant(out[1].subsets_as_states, Head(out[1].calls))
    /\ out' = Some([out[1] EXCEPT !.calls = Tail(@)])
    /\ UNCHANGED <<args, build, left, input, checked, nd, det, acc, run, items, last, pc>>

\* A call of explore on a subset without an entry: the states are merged;
\* a failure is returned through every pending call; otherwise the merged
\* state is inserted and the calls on its destinations come next, in
\* ascending order.
ExploreMerge ==
    /\ Fn = "determinize" /\ out # None
    /\ out[1].returned = None /\ out[1].calls # <<>>
    /\ Vacant(out[1].subsets_as_states, Head(out[1].calls))
    /\ LET subset == Head(out[1].calls)
           Insert(mega_state) ==
               Exploring([q \in DOMAIN out[1].subsets_as_states \cup {subset} |->
                             IF q = subset THEN mega_state ELSE out[1].subsets_as_states[q]],
                         SortSubsets(StateDsts(mega_state)) \o Tail(out[1].calls),
                         Append(out[1].merged, subset),
                         None)
           Merged(m) ==
               IF m = OutOfRange \/ IsErr(m)
               THEN [out[1] EXCEPT !.calls = <<>>, !.returned = Some(m)]
               ELSE IF m = <<"None">> THEN Insert(DeadState)
               ELSE Insert(m[2])
       IN  out' = Some(Merged(MergeOf(To.graph, To.merge, subset)))
    /\ UNCHANGED <<args, build, left, input, checked, nd, det, acc, run, items, last, pc>>

\* The outermost call of explore returns Ok(()).
ExploreReturn ==
    /\ Fn = "determinize" /\ out # None
    /\ out[1].returned = None /\ out[1].calls = <<>>
    /\ out' = Some([out[1] EXCEPT !.returned = Some(Ok(out[1].subsets_as_states))])
    /\ UNCHANGED <<args, build, left, input, checked, nd, det, acc, run, items, last, pc>>

NextExploration ==
    \/ DeterminizeCheck
    \/ ExploreSeen
    \/ ExploreMerge
    \/ ExploreReturn

\* determinize is one sequential call: it goes on as long as it can.
Exploration == InitExploration /\ [][NextExploration]_vars /\ WF_vars(NextExploration)

\* ------------------------------------------------------------------ exec.rs: two executions over one automaton

\* The most states of an automaton that two executions share.
MaxShared == 1

\* The tokens of the input of each of the two executions.
MaxEach == 2

\* Every call of next works on the first execution.
SelfFirst(executions, e) == executions["a"]

\* `&mut self` of Execution::next: the execution the call is made on.
Self(executions, e) == executions[e]

\* An automaton and two inputs.
DrawShared ==
    \E form \in {"set", "single"}, b \in {"debug", "release"}, n \in 0..MaxShared :
        \E v \in StateVectors(form, n), initial \in InitialChoices(form, n) :
            \E ia \in [1..MaxEach -> Tokens], ib \in [1..MaxEach -> Tokens] :
                args = <<"interleave", form,
                         [build |-> b, graph |-> Automaton(form, v, initial),
                          iter |-> [a |-> ia, b |-> ib]]>>

InitInterleaving ==
    /\ DrawShared
    /\ out = None
    /\ build = "debug"
    /\ left = Parser
    /\ input = <<>>
    /\ checked = None
    /\ nd = None
    /\ det = None
    /\ acc = [side \in {"left", "right"} |-> None]
    /\ run = None
    /\ items = <<>>
    /\ last = None
    /\ pc = "library"

\* let mut a = ia.run(&graph); let mut b = ib.run(&graph);
\* each execution holds the reference to the automaton, its own iterator,
\* its own ctrl and its own stack.  `items` are the items each has yielded.
RunBoth ==
    /\ Fn = "interleave" /\ out = None
    /\ out' = Some([executions |-> [e \in {"a", "b"} |-> Run(To.graph, To.iter[e])],
                    items |-> [e \in {"a", "b"} |-> <<>>]])
    /\ UNCHANGED <<args, build, left, input, checked, nd, det, acc, run, items, last, pc>>

\* The items an execution has yielded end with None or with a panic.
Ended(yielded) ==
    yielded # <<>> /\ yielded[Len(yielded)] \in {ItemNone, Panic}

\* The last call of next panicked.
Panicked(yielded) ==
    yielded # <<>> /\ yielded[Len(yielded)] = Panic

\* One call of next on one of the two executions, which is called until it
\* yields None; a panic ends the program.
NextOf(e) ==
    /\ Fn = "interleave" /\ out # None
    /\ ~Ended(out[1].items[e])
    /\ \A d \in {"a", "b"} : ~Panicked(out[1].items[d])
    /\ \E o \in ExecutionNext(To.build, To.graph, Self(out[1].executions, e)) :
          out' = Some([executions |-> [out[1].executions EXCEPT ![e] = o[1]],
                       items |-> [out[1].items EXCEPT ![e] = Append(@, o[2])]])
    /\ UNCHANGED <<args, build, left, input, checked, nd, det, acc, run, items, last, pc>>

NextInterleaving ==
    \/ RunBoth
    \/ NextOf("a")
    \/ NextOf("b")

Interleaving == InitInterleaving /\ [][NextInterleaving]_vars

\* ------------------------------------------------------------------ properties

\* Both calls of accept have returned (or panicked).
BothAccepted == acc["left"] # None /\ acc["right"] # None

\* The latest call of next returned None.
Drained == items # <<>> /\ items[Len(items)] = ItemNone

\* The side whose automaton the execution in `run` runs on.
RunSide ==
    IF pc = "next_right" \/ (pc = "done" /\ Determinized) THEN "right" ELSE "left"

\* A call of next has been made on `run`, and it ran a step of the automaton.
Stepped == last # None /\ IsOk(last[1].ctrl)

\* What the latest call of next returned.
LastItem == items[Len(items)]

\* Some(Err(ill_formed)): an IllFormed error yielded in-band.
IsIllFormedItem(x) == x # Panic /\ x # ItemNone /\ IsErr(x[2])

\* The positions of `items` that hold an IllFormed error.
IllFormedAt == {k \in 1..Len(items) : IsIllFormedItem(items[k])}

\* Every index of the control value c denotes a state of the automaton.
InRange(graph, c) == \A i \in IndicesSet(graph.form, c) : i < Len(graph.states)

\* The fold of the edges found by the step of the latest call of next (which
\* had a token): <<"None">>, Ok(edge), Err(ill_formed), or a failure.
LastFold ==
    MergeEdges(build, Graph(RunSide),
               IndicesIter(Graph(RunSide).form, last[1].ctrl[2]),
               IF last[1].stack = <<>> THEN None
               ELSE Some(last[1].stack[Len(last[1].stack)]),
               last[1].iter[1], 1, None)

\* C1: subset construction is sound -- whenever determinize(N) returns Ok(D)
\* for a nondeterministic automaton N, accept(N, w) and accept(D, w) both
\* return a Boolean verdict (no IllFormed, no assertion failure) and the two
\* verdicts are equal.  The subset construction does not satisfy this.
C1_SubsetConstructionSound ==
    (left.form = "set" /\ Determinized /\ BothAccepted) =>
        /\ IsOk(acc["left"][1].result)
        /\ IsOk(acc["right"][1].result)
        /\ acc["left"][1].result = acc["right"][1].result

\* C2: generalize/determinize round trip -- for a deterministic automaton D
\* with determinize(generalize(D)) = Ok(D'), accept gives the same outcome on
\* D and on D' for every input.
C2_GeneralizeDeterminizeRoundTrip ==
    (left.form = "single" /\ Determinized /\ BothAccepted) =>
        acc["left"][1].result = acc["right"][1].result

\* A deterministic automaton of two states whose round trip succeeded and
\* which accepts a non-empty input on both sides.
C2_Witness ==
    /\ left.form = "single" /\ Len(left.states) = MaxStates
    /\ nd # None /\ nd[1] = Generalize(left)
    /\ Determinized /\ BothAccepted
    /\ input # <<>>
    /\ acc["left"][1].result = Ok(TRUE)
    /\ acc["right"][1].result = Ok(TRUE)

\* C3: the one-state matched-parentheses automaton, run directly or after
\* determinize (which succeeds on it), never panics and never yields an
\* IllFormed item, and when its run is drained the verdict is Err(b) with b
\* the verdict of the reference counter.
C3_MatchedParentheses ==
    (left = Parser) =>
        /\ det # None => Determinized
        /\ \A k \in 1..Len(items) :
              items[k] = ItemNone \/ (items[k] # Panic /\ IsOk(items[k][2]))
        /\ Drained => run[1].ctrl = Err(ReferenceAccept(input))

\* The determinized parser has drained "()" and accepted it.
C3_Witness ==
    /\ left = Parser /\ Determinized /\ pc = "done"
    /\ input = <<LeftParen, RightParen>>
    /\ Drained /\ Len(items) = 3
    /\ run[1].ctrl = Err(TRUE)

\* C4: when the input is exhausted while ctrl is still Ok(c), c indexing
\* states of the automaton, the step sets the verdict to Err(true) if and
\* only if the stack is empty and at least one state indexed by c is
\* accepting, and to Err(false) otherwise; next returns None.
C4_EndOfInputVerdict ==
    (Stepped /\ last[1].iter = <<>> /\ InRange(Graph(RunSide), last[1].ctrl[2])) =>
        /\ LastItem = ItemNone
        /\ run[1].ctrl =
              Err(/\ last[1].stack = <<>>
                  /\ \E i \in IndicesSet(Graph(RunSide).form, last[1].ctrl[2]) :
                        Graph(RunSide).states[i + 1].accepting)

\* A run over a non-empty input was exhausted on an empty stack in an
\* accepting state, and the verdict is Err(true).
C4_Witness ==
    /\ Stepped /\ last[1].iter = <<>> /\ input # <<>>
    /\ InRange(Graph(RunSide), last[1].ctrl[2])
    /\ last[1].stack = <<>>
    /\ \E i \in IndicesSet(Graph(RunSide).form, last[1].ctrl[2]) :
          Graph(RunSide).states[i + 1].accepting
    /\ run[1].ctrl = Err(TRUE)

\* C5, as stated: the items yielded by the run iterator are exactly the
\* input tokens, each once and in input order, and when the iterator returns
\* None the run's ctrl holds a verdict Err(_).
C5_ItemsAreExactlyTheTokens ==
    /\ \A k \in 1..Len(items) :
          \/ items[k] = Panic
          \/ k = Len(input) + 1 /\ items[k] = ItemNone
          \/ k <= Len(input) /\ items[k] = ItemSome(Ok(input[k]))
    /\ Drained => IsErr(run[1].ctrl)

\* C5, amended: the k-th item yielded by the run iterator is the k-th input
\* token, except that the token whose step fails is replaced by the
\* IllFormed error (at most one item is such an error); None is returned
\* only after as many items as the input has tokens, and then the run's
\* ctrl holds a verdict Err(_).
C5_ItemsAreTokensOrOneError ==
    /\ \A k \in 1..Len(items) :
          \/ k = Len(items) /\ items[k] = Panic
          \/ k = Len(input) + 1 /\ items[k] = ItemNone
          \/ k <= Len(input) /\ items[k] = ItemSome(Ok(input[k]))
          \/ k <= Len(input) /\ IsIllFormedItem(items[k])
    /\ Cardinality(IllFormedAt) <= 1
    /\ Drained => IsErr(run[1].ctrl)

\* A drained run whose first item was an IllFormed error and whose second
\* item is the second input token.
C5_Witness ==
    /\ Drained /\ Len(items) = 3
    /\ IllFormedAt = {1}
    /\ items[2] = ItemSome(Ok(input[2]))
    /\ IsErr(run[1].ctrl)

\* C6: every call of accept that returns, returns Ok(true), Ok(false) or
\* Err(IllFormed): when its loop ends without an IllFormed item, run.ctrl is
\* Err(b) and Ok(b) is returned; the never!() branch is not entered.
C6_AcceptReturnsVerdict ==
    \A side \in {"left", "right"} :
        acc[side] # None =>
            /\ acc[side][1].result # <<"Never">>
            /\ \/ acc[side][1].result = Panic
               \/ IsErr(acc[side][1].result)
               \/ /\ IsOk(acc[side][1].result)
                  /\ acc[side][1].result[2] \in BOOLEAN
                  /\ acc[side][1].run.ctrl = Err(acc[side][1].result[2])
                  /\ acc[side][1].run.iter = <<>>

\* accept has returned Ok(true) on a non-empty input, before and after
\* determinize, and the run ended with the verdict Err(true).
C6_Witness ==
    /\ BothAccepted /\ input # <<>>
    /\ acc["left"][1].result = Ok(TRUE)
    /\ acc["left"][1].run.ctrl = Err(TRUE)
    /\ acc["right"][1].result = Ok(TRUE)

\* C7, as stated: when the fold of the edges found in a step fails, the
\* iterator yields that IllFormed error in-band and the run stops -- no later
\* call of next yields a further item.
C7_NoItemAfterIllFormed ==
    \A k \in IllFormedAt : \A j \in (k + 1)..Len(items) : items[j] = ItemNone

\* C7, amended: when the fold of the edges found in a step fails, next
\* yields that IllFormed error in-band in place of the token, the verdict
\* becomes Err(false) and the stack stays as it was; no later call of next
\* takes a step or yields another error, but the later calls still yield
\* the remaining input tokens, one each, before None.
C7_NoStepAfterIllFormed ==
    LET Failed(fold) == IsErr(fold) => LastItem = ItemSome(fold)
    IN  /\ (Stepped /\ last[1].iter # <<>>) => Failed(LastFold)
        /\ \A k \in IllFormedAt :
              /\ run[1].ctrl = Err(FALSE)
              /\ run[1].stack = last[1].stack
              /\ Len(items) > k => last[1].ctrl = Err(FALSE)
              /\ \A j \in (k + 1)..Len(items) :
                    items[j] = IF j <= Len(input) THEN ItemSome(Ok(input[j]))
                               ELSE ItemNone

\* The first step failed, its error was yielded in-band, and the next call
\* of next has yielded the second input token.
C7_Witness ==
    /\ pc = "next_left" /\ Len(items) = 2
    /\ IllFormedAt = {1}
    /\ items[2] = ItemSome(Ok(input[2]))
    /\ run[1].ctrl = Err(FALSE)
    /\ last[1].ctrl = Err(FALSE)

\* C8: a step whose edge is a Return edge, taken while the stack is empty,
\* makes the verdict Err(false); next yields the token, not an IllFormed
\* error, and the stack stays empty.
C8_ReturnOnEmptyStackRejects ==
    LET Taken(fold) ==
            (IsOk(fold) /\ fold[2].kind = "Return") =>
                /\ run[1].ctrl = Err(FALSE)
                /\ run[1].stack = <<>>
                /\ LastItem = ItemSome(Ok(last[1].iter[1]))
    IN  (Stepped /\ last[1].iter # <<>> /\ last[1].stack = <<>>) => Taken(LastFold)

\* The state whose only edge is a Return edge on ')' met ')' on an empty
\* stack, and the run rejected.
C8_Witness ==
    /\ Stepped /\ last[1].iter # <<>> /\ last[1].stack = <<>>
    /\ last[1].iter[1] = RightParen
    /\ IsOk(LastFold) /\ LastFold[2].kind = "Return"
    /\ run[1].ctrl = Err(FALSE) /\ run[1].stack = <<>>

\* C9: if, for the current token and stack top, no state in ctrl has a
\* matching transition, the step sets the verdict to Err(false), leaves the
\* stack unchanged, and next yields the token, not an IllFormed error.
C9_LookupMissRejects ==
    (/\ Stepped /\ last[1].iter # <<>>
     /\ InRange(Graph(RunSide), last[1].ctrl[2])
     /\ LastFold = <<"None">>) =>
        /\ run[1].ctrl = Err(FALSE)
        /\ run[1].stack = last[1].stack
        /\ LastItem = ItemSome(Ok(last[1].iter[1]))

\* A state entered by a call has no transition for the next token: the run
\* rejects with the pushed symbol still on the stack.
C9_Witness ==
    /\ Stepped /\ last[1].iter # <<>>
    /\ InRange(Graph(RunSide), last[1].ctrl[2])
    /\ IndicesSet(Graph(RunSide).form, last[1].ctrl[2]) # {}
    /\ LastFold = <<"None">>
    /\ last[1].stack = <<Paren>>
    /\ run[1].ctrl = Err(FALSE) /\ run[1].stack = <<Paren>>

\* The destination indices of every edge of every state.
Destinations(graph) ==
    UNION {IndicesSet(graph.form, d) :
             d \in UNION {StateDsts(graph.states[k]) : k \in 1..Len(graph.states)}}

InitialOutOfBounds(graph) ==
    \E i \in IndicesSet(graph.form, graph.initial) : i >= Len(graph.states)

DestinationOutOfBounds(graph) ==
    \E i \in Destinations(graph) : i >= Len(graph.states)

\* C10, as stated: check returns Ok only if every index in initial and every
\* destination index is less than the number of states, and an automaton
\* with an out-of-range initial or destination index makes check return
\* Err(OutOfBounds).
C10_OutOfRangeIsOutOfBounds ==
    checked # None =>
        /\ IsOk(checked[1]) => ~InitialOutOfBounds(left) /\ ~DestinationOutOfBounds(left)
        /\ (InitialOutOfBounds(left) \/ DestinationOutOfBounds(left)) =>
              checked[1] = Err(<<"OutOfBounds">>)

\* C10, amended: check returns Ok only if every index in initial and every
\* destination index is less than the number of states; an out-of-range
\* initial index makes it return Err(OutOfBounds); an out-of-range
\* destination index makes it return an error, which is OutOfBounds unless
\* the pass meets a conflict between ranges or layers first.
C10_CheckBoundsIndices ==
    checked # None =>
        /\ IsOk(checked[1]) => ~InitialOutOfBounds(left) /\ ~DestinationOutOfBounds(left)
        /\ InitialOutOfBounds(left) => checked[1] = Err(<<"OutOfBounds">>)
        /\ DestinationOutOfBounds(left) =>
              /\ IsErr(checked[1])
              /\ checked[1][2][1] \in
                    {"OutOfBounds", "VecMergeConflict", "CurryOptMergeConflict"}

\* One state whose edge targets index 1: check has returned Err(OutOfBounds).
C10_Witness ==
    /\ Len(left.states) = 1
    /\ ~InitialOutOfBounds(left)
    /\ Destinations(left) = {1}
    /\ checked = Some(Err(<<"OutOfBounds">>))

\* The Specific layers of the states of an automaton.
SpecificLayers(graph) ==
    {l \in UNION {CurryOptValues(graph.states[k].transitions)
                    : k \in 1..Len(graph.states)} : l.tag = "Specific"}

\* Two closed intervals share a point.
SharePoint(a, b) == Max(a.first, b.first) <= Min(a.last, b.last)

\* The pairs of ranges of one layer that share a point, as their
\* intersections.
Intersections(l) ==
    {Range(Max(l.map[i][1].first, l.map[j][1].first),
           Min(l.map[i][1].last, l.map[j][1].last)) :
        <<i, j>> \in {p \in (1..Len(l.map)) \X (1..Len(l.map)) :
                        p[1] < p[2] /\ SharePoint(l.map[p[1]][1], l.map[p[2]][1])}}

\* C11: check rejects overlapping ranges -- once check has returned Ok, no
\* Specific layer of any state holds two ranges that share a point, and a
\* VecMergeConflict(r) that check returns carries the intersection r of two
\* ranges of one layer that share a point.
C11_CheckRejectsOverlappingRanges ==
    checked # None =>
        /\ checked[1] = Ok(<<>>) =>
                \A l \in SpecificLayers(left) : Intersections(l) = {}
        /\ IsErr(checked[1]) /\ checked[1][2][1] = "VecMergeConflict" =>
                \E l \in SpecificLayers(left) : checked[1][2][2] \in Intersections(l)

\* A layer has an entry for the token.
Matches(layer, token) ==
    layer.tag = "Any"
    \/ \E i \in 1..Len(layer.map) : RangeContains(layer.map[i][1], token) = "Equal"

\* The lookup keys of a state that both the stack-top `wildcard` layer and
\* the applicable `none` or `some` layer match.
Shadowed(state) ==
    LET t == state.transitions IN
    {key \in ({None} \cup {Some(s) : s \in DOMAIN t.some}) \X Tokens :
        /\ t.wildcard # None /\ Matches(t.wildcard[1], key[2])
        /\ IF key[1] = None THEN t.none # None /\ Matches(t.none[1], key[2])
           ELSE Matches(t.some[key[1][1]], key[2])}

\* C12: once check has returned Ok on an automaton, no lookup key of any
\* of its states is matched by the stack-top wildcard layer and by the
\* applicable none or some layer as well, and no call of accept or of next
\* on that automaton ends in a failed assertion.
C12_LookupAssertionsNeverFire ==
    checked = Some(Ok(<<>>)) =>
        /\ \A k \in 1..Len(left.states) : Shadowed(left.states[k]) = {}
        /\ acc["left"] # None => acc["left"][1].result # Panic
        /\ RunSide = "left" => \A k \in 1..Len(items) : items[k] # Panic

\* C13: deabsurdification implies check -- whatever automaton deabsurdify
\* is applied to (set or single form, any number of states, any destinations
\* and ranges), it returns, and check on the automaton it leaves returns Ok.
C13_DeabsurdifyImpliesCheck ==
    Fn = "deabsurdify" /\ out # None =>
        /\ IsOk(out[1].deabsurdify)
        /\ out[1].check = Some(Ok(<<>>))

\* C14: starting a run on an automaton in which some state has an edge
\* whose kind is not the kind of its token gives the caller an
\* InconsistentKind error value, before any step: no panic, and no execution
\* that goes on to take the edge.
C14_InconsistentKindIsSurfaced ==
    /\ Fn = "run" /\ out # None
    /\ IsErr(AutomatonCheckConsistency(To.graph))
    => IsErr(out[1]) /\ out[1][2][1] = "InconsistentKind"

\* Every two edges of the sequence merge, in both orders.
PairwiseMergeable(form, edges) ==
    \A i, j \in 1..Len(edges) : i # j => IsOk(EdgeMerge(form, edges[i], edges[j]))

\* The sequence in every order.
Orders(edges) ==
    {[k \in 1..Len(edges) |-> edges[p[k]]] : p \in Permutations(1..Len(edges))}

\* C15: edge merge is commutative and associative on successful folds --
\* when every two edges of a collection merge, the fold of merge over the
\* collection succeeds, and in every order it yields the same edge.
C15_EdgeMergeOrderIndependent ==
    Fn = "merge_edges" /\ out # None /\ PairwiseMergeable(Form, To.edges) =>
        /\ IsOk(out[1][1])
        /\ \A v \in Orders(To.edges) : Merge(Form, v) = out[1]

\* merge was applied to two edges: self.merge(&other).
MergedTwo == Fn = "merge_edges" /\ out # None /\ Len(To.edges) = 2

\* The destinations and the actions of the two edges merge.
PartsMerge ==
    /\ IsOk(IndicesMerge(Form, To.edges[1].dst, To.edges[2].dst))
    /\ IsOk(CallMerge(To.edges[1].call, To.edges[2].call))

\* C16: merging two edges of the same kind whose destinations and actions
\* merge (and, for Call edges, whose push symbols are equal) yields an edge
\* of that same kind -- a Call from two Calls, a Return from two Returns, a
\* Local from two Locals -- that carries the merged destination and action.
C16_SameKindMergeKeepsKind ==
    /\ MergedTwo /\ PartsMerge
    /\ To.edges[1].kind = To.edges[2].kind
    /\ To.edges[1].push = To.edges[2].push
    => out[1][1] =
         Ok([kind |-> To.edges[1].kind,
             dst |-> IndicesMerge(Form, To.edges[1].dst, To.edges[2].dst)[2],
             call |-> CallMerge(To.edges[1].call, To.edges[2].call)[2],
             push |-> To.edges[1].push])

\* C17: merging two Call edges whose destinations and actions merge fails
\* with PushMergeConflict carrying the two push symbols when they differ,
\* and yields a Call edge that pushes the common symbol when they are equal.
C17_PushMergeConflict ==
    /\ MergedTwo /\ PartsMerge
    /\ To.edges[1].kind = "Call" /\ To.edges[2].kind = "Call"
    => IF To.edges[1].push # To.edges[2].push
       THEN out[1][1] = Err(<<"PushMergeConflict",
                              To.edges[1].push[1], To.edges[2].push[1]>>)
       ELSE /\ IsOk(out[1][1])
            /\ out[1][1][2].kind = "Call"
            /\ out[1][1][2].push = To.edges[1].push

\* Two Call edges with different push symbols were merged and the merge
\* failed with PushMergeConflict.
C17_Witness ==
    /\ MergedTwo /\ PartsMerge
    /\ To.edges[1].kind = "Call" /\ To.edges[2].kind = "Call"
    /\ To.edges[1].push = Some(Paren) /\ To.edges[2].push = Some(Bracket)
    /\ IsErr(out[1][1]) /\ out[1][1][2][1] = "PushMergeConflict"

\* C18: merging two edges of different kinds fails with EdgeMergeConflict
\* carrying both edges, whatever their destinations, actions and pushes.
C18_CrossKindMergeConflict ==
    MergedTwo /\ To.edges[1].kind # To.edges[2].kind =>
        out[1][1] = Err(<<"EdgeMergeConflict", To.edges[1], To.edges[2]>>)

\* A Return edge and a Local edge with equal destinations and actions were
\* merged and the merge failed with EdgeMergeConflict.
C18_Witness ==
    /\ MergedTwo /\ PartsMerge
    /\ To.edges[1].kind = "Return" /\ To.edges[2].kind = "Local"
    /\ To.edges[1].dst = To.edges[2].dst
    /\ IsErr(out[1][1]) /\ out[1][1][2][1] = "EdgeMergeConflict"

\* C19: merging two set-form controls succeeds with their union; merging
\* two single-form controls i and j succeeds with i when i = j and fails
\* with IndexMergeConflict(i, j) otherwise.
C19_ControlMerge ==
    Fn = "merge_indices" /\ out # None =>
        IF Form = "set" THEN out[1] = Ok(To.self \cup To.other)
        ELSE IF To.self = To.other THEN out[1] = Ok(To.self)
        ELSE out[1] = Err(<<"IndexMergeConflict", To.self, To.other>>)

\* Two different single-form controls were merged, and the merge failed.
C19_Witness ==
    /\ Fn = "merge_indices" /\ out # None
    /\ Form = "single" /\ To.self = 0 /\ To.other = 1
    /\ IsErr(out[1])

\* C20: merging an Any layer with a Specific layer, in either order, yields
\* the Any layer unchanged when the Specific layer is empty, and fails with
\* WildcardMergeConflict listing the ranges of the Specific layer otherwise.
C20_AnyWithSpecific ==
    Fn = "merge_wildcards" /\ out # None /\ To.self.tag # To.other.tag =>
        LET any == IF To.self.tag = "Any" THEN To.self ELSE To.other
            specific == IF To.self.tag = "Any" THEN To.other ELSE To.self
        IN  IF specific.map = <<>> THEN out[1] = Ok(any)
            ELSE out[1] = Err(<<"WildcardMergeConflict",
                                [i \in 1..Len(specific.map) |-> specific.map[i][1]]>>)

\* A Specific layer of two ranges was merged with an Any layer, and the
\* merge failed.
C20_Witness ==
    /\ Fn = "merge_wildcards" /\ out # None
    /\ To.self.tag = "Specific" /\ Len(To.self.map) = 2
    /\ To.other.tag = "Any"
    /\ IsErr(out[1])

\* The intersections of a range of u with a range of v.
CrossIntersections(u, v) ==
    {Range(Max(u[i][1].first, v[j][1].first), Min(u[i][1].last, v[j][1].last)) :
        <<i, j>> \in {p \in (1..Len(u)) \X (1..Len(v)) : SharePoint(u[p[1]][1], v[p[2]][1])}}

\* C21: merging Specific(u) with Specific(v) fails with VecMergeConflict
\* carrying the intersecting range whenever some range of u shares a point
\* with some range of v; otherwise it succeeds with a Specific layer holding
\* the entries of u followed by the entries of v.
C21_SpecificMerge ==
    Fn = "merge_wildcards" /\ out # None
      /\ To.self.tag = "Specific" /\ To.other.tag = "Specific" =>
        IF CrossIntersections(To.self.map, To.other.map) # {}
        THEN /\ IsErr(out[1])
             /\ out[1][2][1] = "VecMergeConflict"
             /\ out[1][2][2] \in CrossIntersections(To.self.map, To.other.map)
        ELSE out[1] = Ok(WildcardSpecific(To.self.map \o To.other.map))

\* The tokens a layer matches.
KeySet(layer) ==
    IF layer.tag = "Any" THEN Tokens
    ELSE {t \in Tokens : \E i \in 1..Len(layer.map) : RangeContains(layer.map[i][1], t) = "Equal"}

\* The none and some layers whose key-set meets that of the wildcard layer.
Overlapped(wildcard, none, some) ==
    IF wildcard = None THEN {}
    ELSE {l \in (IF none = None THEN {} ELSE {none[1]}) \cup {some[k] : k \in DOMAIN some} :
            KeySet(wildcard[1]) \cap KeySet(l) # {}}

\* C22: when the three layers merge componentwise, the merge of two stack-top
\* layers fails with CurryOptMergeConflict exactly when the key-set of the
\* merged wildcard layer meets the key-set of the merged none layer or of a
\* merged some layer.
C22_CurryOptMergeConflict ==
    Fn = "merge_curry_opts" /\ out # None =>
        LET Componentwise(wildcard, none, some) ==
                IsOk(wildcard) /\ IsOk(none) /\ IsOk(some) =>
                    ((IsErr(out[1]) /\ out[1][2][1] = "CurryOptMergeConflict")
                        <=> Overlapped(wildcard[2], none[2], some[2]) # {})
        IN  Componentwise(OptionMerge(Form, To.self.wildcard, To.other.wildcard),
                          OptionMerge(Form, To.self.none, To.other.none),
                          MapMerge(To.self.some, To.other.some))

\* C23: merging two stack-top layers whose some maps share a stack symbol
\* fails with MapMergeConflict only when the two layers under a shared symbol
\* do not merge.
C23_SharedKeyMergesRecursively ==
    Fn = "merge_curry_opts" /\ out # None
      /\ IsErr(out[1]) /\ out[1][2][1] = "MapMergeConflict" =>
        \E k \in DOMAIN To.self.some \cap DOMAIN To.other.some :
            IsErr(WildcardMerge(Form, To.self.some[k], To.other.some[k]))

\* A closed interval: first <= last.
WellFormed(r) == r.first <= r.last

\* The range functions were applied to two closed intervals.
RangesApplied ==
    Fn = "range" /\ out # None /\ WellFormed(To.self) /\ WellFormed(To.other)

\* C24: for ranges a and b with first <= last, overlap(a, b) is true if and
\* only if some value lies in both intervals.
C24_OverlapIffSharedPoint ==
    RangesApplied => (out[1].overlap <=> SharePoint(To.self, To.other))

\* C25: overlap(a, b) = overlap(b, a), for all ranges a and b.
C25_OverlapSymmetric ==
    Fn = "range" /\ out # None => out[1].overlap = out[1].flipped

\* overlap was applied, both ways round, to two intervals that lie apart.
C25_Witness ==
    /\ RangesApplied
    /\ To.self.last < To.other.first
    /\ out[1].overlap = out[1].flipped

\* C26: for a range r with first <= last, contains(r, v) is Less when
\* v < r.first, Greater when v > r.last and Equal exactly when
\* r.first <= v <= r.last; contains(unit(v), u) is Equal exactly when u = v.
C26_ContainsThreeWay ==
    Fn = "range" /\ out # None =>
        /\ WellFormed(To.self) =>
            /\ To.value < To.self.first => out[1].contains = "Less"
            /\ To.value > To.self.last => out[1].contains = "Greater"
            /\ out[1].contains = "Equal"
                  <=> (To.self.first <= To.value /\ To.value <= To.self.last)
        /\ out[1].unit = "Equal" <=> To.value = To.unit

\* contains returned Equal on the last value of a range of several values,
\* and did not on a unit range of another value.
C26_Witness ==
    /\ RangesApplied
    /\ To.self.first < To.self.last /\ To.value = To.self.last
    /\ out[1].contains = "Equal"
    /\ To.unit # To.value /\ out[1].unit = "Less"

\* C27: for ranges a and b with first <= last, union(a, b) is Some of the
\* intersection [max of the firsts, min of the lasts] when that interval is
\* not empty, and None otherwise.
C27_UnionIsIntersection ==
    RangesApplied =>
        out[1].union =
            IF SharePoint(To.self, To.other)
            THEN Some(Range(Max(To.self.first, To.other.first),
                            Min(To.self.last, To.other.last)))
            ELSE None

\* explore has returned to determinize (or check has failed).
Explored == Fn = "determinize" /\ out # None /\ out[1].returned # None

\* No subset was merged and inserted twice, every one of them is a set of
\* state indices of the automaton, and so there are at most 2^|states|.
MergedAtMostOnce ==
    Fn = "determinize" /\ out # None =>
        /\ \A i, j \in 1..Len(out[1].merged) :
              out[1].merged[i] = out[1].merged[j] => i = j
        /\ \A i \in 1..Len(out[1].merged) :
              out[1].merged[i] \subseteq 0..(Len(To.graph.states) - 1)
        /\ Len(out[1].merged) <= 2 ^ Len(To.graph.states)
        /\ DOMAIN out[1].subsets_as_states = {out[1].merged[i] : i \in 1..Len(out[1].merged)}

\* The calls of explore, taken one at a time, leave the map that explore
\* leaves as a whole.
ExploreAgrees ==
    Explored /\ IsOk(AutomatonCheck(To.graph)) =>
        out[1].returned[1] = Explore(To.graph, [q \in {} |-> DeadState], To.graph.initial)

\* C28: determinize terminates on every nondeterministic automaton: each
\* subset of state indices is merged and inserted into the subset map at most
\* once, so that at most 2^|states| subsets are visited, and explore returns.
C28_DeterminizeTerminates ==
    []MergedAtMostOnce /\ <>Explored

\* explore has returned Ok after it merged three subsets of a two-state
\* automaton and met a subset again that had its entry.
C28_Witness ==
    /\ Explored /\ IsOk(out[1].returned[1])
    /\ Len(To.graph.states) = 2
    /\ Len(out[1].merged) >= 3

\* An execution run alone: the executions it may be in, with the items it
\* has yielded, after k calls of next.
RECURSIVE Alone(_, _, _, _)
Alone(b, graph, iter, k) ==
    IF k = 0 THEN {<<Run(graph, iter), <<>>>>}
    ELSE UNION {{<<o[1], Append(p[2], o[2])>> : o \in ExecutionNext(b, graph, p[1])}
                : p \in {q \in Alone(b, graph, iter, k - 1) : ~Ended(q[2])}}

\* Each of the two executions is where it may be when it is run alone and
\* called as many times.
AsAlone ==
    Fn = "interleave" /\ out # None =>
        \A e \in {"a", "b"} :
            <<out[1].executions[e], out[1].items[e]>>
                \in Alone(To.build, To.graph, To.iter[e], Len(out[1].items[e]))

EmptyAutomaton == Automaton("set", <<>>, {})

\* C30: the empty automaton rejects every input, the empty input included:
\* accept returns Ok(false).
C30_EmptyAutomatonRejects ==
    left = EmptyAutomaton /\ acc["left"] # None =>
        acc["left"][1].result = Ok(FALSE)

\* accept has returned on the empty automaton and the input "()".
C30_Witness ==
    /\ left = EmptyAutomaton
    /\ input = <<LeftParen, RightParen>>
    /\ acc["left"] # None
    /\ acc["left"][1].result = Ok(FALSE)

\* The edge n is the edge d with its destination i replaced by {i}.
EmbedsEdge(d, n) ==
    /\ n.kind = d.kind /\ n.call = d.call /\ n.push = d.push
    /\ n.dst = {d.dst}

\* The layer n has the keys of the layer d, in order, and its edges embedded.
EmbedsLayer(d, n) ==
    /\ n.tag = d.tag
    /\ d.tag = "Any" => EmbedsEdge(d.etc[1], n.etc[1])
    /\ Len(n.map) = Len(d.map)
    /\ \A i \in 1..Len(d.map) :
          n.map[i][1] = d.map[i][1] /\ EmbedsEdge(d.map[i][2], n.map[i][2])

\* The automaton n is the automaton d with every index replaced by its
\* singleton.
Embeds(d, n) ==
    /\ n.form = "set" /\ n.initial = {d.initial}
    /\ Len(n.states) = Len(d.states)
    /\ \A k \in 1..Len(d.states) :
          LET dt == d.states[k].transitions
              nt == n.states[k].transitions
          IN  /\ n.states[k].accepting = d.states[k].accepting
              /\ (nt.wildcard = None) = (dt.wildcard = None)
              /\ dt.wildcard # None => EmbedsLayer(dt.wildcard[1], nt.wildcard[1])
              /\ (nt.none = None) = (dt.none = None)
              /\ dt.none # None => EmbedsLayer(dt.none[1], nt.none[1])
              /\ DOMAIN nt.some = DOMAIN dt.some
              /\ \A sym \in DOMAIN dt.some : EmbedsLayer(dt.some[sym], nt.some[sym])

\* A deterministic execution with its ctrl as a set of indices.
AsSet(p) ==
    <<[p[1] EXCEPT !.ctrl = IF IsOk(@) THEN Ok({@[2]}) ELSE @], p[2]>>

\* C31: when generalize(D) returns, it is D with every destination i replaced by {i} and
\* initial by {D.initial}, and on every input the runs of D and of
\* generalize(D) yield the same items and have the same stack and the same
\* outcome after each call of next.
C31_GeneralizeEmbeds ==
    left.form = "single" /\ nd # None /\ pc = "determinize" =>
        /\ Embeds(left, nd[1])
        /\ \A k \in 0..(Len(input) + 1) :
              {AsSet(p) : p \in Alone(build, left, input, k)}
                  = Alone(build, nd[1], input, k)

\* A deterministic automaton that accepts "()" was generalized.
C31_Witness ==
    /\ left.form = "single" /\ nd # None
    /\ input = <<LeftParen, RightParen>>
    /\ \E p \in Alone(build, nd[1], input, 3) :
          p[1].ctrl = Err(TRUE) /\ p[2][3] = ItemNone
    /\ \E p \in Alone(build, nd[1], input, 1) : p[1].stack = <<Paren>>

\* The entries of a layer (absent or present) whose key contains the token,
\* each with its value.
Found(layer, token) ==
    IF layer = None THEN {}
    ELSE IF layer[1].tag = "Any" THEN {<<0, layer[1].etc[1]>>}
    ELSE {<<i, layer[1].map[i][2]>> :
            i \in {j \in 1..Len(layer[1].map) :
                      layer[1].map[j][1].first <= token /\ token <= layer[1].map[j][1].last}}

\* The layer for the top of the stack: `none`, or `some[s]`.
TopLayer(self, head) ==
    IF head = None THEN self.none
    ELSE IF head[1] \in DOMAIN self.some THEN Some(self.some[head[1]])
    ELSE None

\* What the lookup returns by the order of the layers.
InLayerOrder(self, head, token, found) ==
    IF Found(self.wildcard, token) # {}
    THEN \E f \in Found(self.wildcard, token) : found = Hit(f[2])
    ELSE IF Found(TopLayer(self, head), token) = {} THEN found = Miss
    ELSE \E f \in Found(TopLayer(self, head), token) : found = Hit(f[2])

\* C32 as stated: the lookup on (top, token) returns the value of the
\* wildcard layer whenever that layer matches the token, whatever the top;
\* otherwise the result of the none layer when there is no top and of the
\* some[s] layer when the top is s, and a miss when that layer is absent or
\* does not match.
C32_LookupInLayerOrder ==
    Fn = "get" /\ out # None => InLayerOrder(To.self, To.head, To.token, out[1])

\* C32: the lookup returns what the order of the layers gives, unless it
\* panics: it panics when a layer it consults has two ranges that contain
\* the token (it consults the wildcard layer and, when that misses or with
\* debug assertions, the none layer, whatever the top, and the layer of the
\* top), and with debug assertions when both the wildcard layer and the
\* layer of the top match.
C32_LookupUnlessAsserted ==
    Fn = "get" /\ out # None =>
        LET Twice(layer) == Cardinality(Found(layer, To.token)) > 1
            wild == Found(To.self.wildcard, To.token) # {}
            further == ~wild \/ To.build = "debug"
        IN  IF \/ Twice(To.self.wildcard)
               \/ further /\ (Twice(To.self.none) \/ Twice(TopLayer(To.self, To.head)))
               \/ To.build = "debug" /\ wild
                     /\ Found(TopLayer(To.self, To.head), To.token) # {}
            THEN out[1] = Panic
            ELSE InLayerOrder(To.self, To.head, To.token, out[1])

\* With debug assertions, the wildcard layer and the layer of the top of
\* the stack both match the token, each with one entry, and the lookup
\* panics.
C32_Witness ==
    /\ Fn = "get" /\ out # None
    /\ To.build = "debug" /\ To.head = Some(Paren)
    /\ Cardinality(Found(To.self.wildcard, To.token)) = 1
    /\ Cardinality(Found(TopLayer(To.self, To.head), To.token)) = 1
    /\ To.self.none = None
    /\ out[1] = Panic

\* C33: a step that takes an edge and does not end the run changes the stack
\* as the kind of the edge dictates and in no other way: a Call edge appends
\* exactly its push symbol, a Return edge removes exactly the top symbol, a
\* Local edge leaves the stack as it was; ctrl becomes the destination of
\* the edge.
C33_StackFollowsKind ==
    LET before == last[1].stack
        Taken(fold) ==
            (IsOk(fold) /\ ~(fold[2].kind = "Return" /\ before = <<>>)) =>
                /\ run[1].ctrl = Ok(fold[2].dst)
                /\ fold[2].kind = "Call" =>
                      /\ Len(run[1].stack) = Len(before) + 1
                      /\ run[1].stack = before \o <<fold[2].push[1]>>
                /\ fold[2].kind = "Return" =>
                      /\ Len(run[1].stack) = Len(before) - 1
                      /\ run[1].stack = [k \in 1..(Len(before) - 1) |-> before[k]]
                /\ fold[2].kind = "Local" => run[1].stack = before
    IN  (Stepped /\ last[1].iter # <<>>) => Taken(LastFold)

\* A Return edge was taken on the stack that a Call edge had left, and
\* removed its symbol.
C33_Witness ==
    /\ Stepped /\ last[1].iter # <<>>
    /\ IsOk(LastFold) /\ LastFold[2].kind = "Return"
    /\ last[1].stack = <<Paren>>
    /\ run[1].stack = <<>>
    /\ run[1].ctrl = Ok(LastFold[2].dst)

\* What the lookup of the latest step found in state i of the previous ctrl.
LastFound(i) ==
    CurryOptGet(build, Graph(RunSide).states[i + 1].transitions,
                IF last[1].stack = <<>> THEN None
                ELSE Some(last[1].stack[Len(last[1].stack)]),
                last[1].iter[1])

\* The states of the previous ctrl in which the lookup found no edge.
LastMissing ==
    {i \in last[1].ctrl[2] : i < Len(Graph(RunSide).states) /\ LastFound(i) = Miss}

\* C34: in a run of a set-form automaton, a successful step on a token sets
\* ctrl to the union of the destinations of the edges found, under the key
\* (stack top, token), in the states of the previous ctrl; the states
\* without a matching edge contribute nothing: the call of next does what
\* it does from the other states alone, and rejects for want of an edge only
\* when no state matches.
C34_CtrlIsUnionOfDestinations ==
    (Stepped /\ last[1].iter # <<>> /\ Graph(RunSide).form = "set") =>
        /\ IsOk(run[1].ctrl) =>
              /\ InRange(Graph(RunSide), last[1].ctrl[2])
              /\ run[1].ctrl = Ok(UNION {LastFound(i)[2].dst :
                                           i \in last[1].ctrl[2] \ LastMissing})
        /\ <<run[1], LastItem>> \in
              ExecutionNext(build, Graph(RunSide),
                            [last[1] EXCEPT !.ctrl = Ok(last[1].ctrl[2] \ LastMissing)])
        /\ LastFold = <<"None">> <=>
              /\ InRange(Graph(RunSide), last[1].ctrl[2])
              /\ LastMissing = last[1].ctrl[2]

\* The two states of ctrl had edges to different states for the token: the
\* step succeeded and ctrl holds both destinations.
C34_Witness ==
    /\ Stepped /\ last[1].iter # <<>> /\ Graph(RunSide).form = "set"
    /\ last[1].ctrl[2] = {0, 1} /\ LastMissing = {}
    /\ LastFound(0) # Panic /\ LastFound(1) # Panic
    /\ LastFound(0)[2].dst # LastFound(1)[2].dst
    /\ run[1].ctrl = Ok({0, 1})

\* The subsets that determinize explored on nd, in the order of the states
\* of the automaton it returned.
Ordering ==
    SortSubsets(DOMAIN Explore(nd[1], [q \in {} |-> DeadState], nd[1].initial)[2])

\* The position of a subset in that order.
Position(subset) == BinarySearch(Ordering, subset)

\* The run of the determinized automaton is in the state of the empty subset.
InDead ==
    /\ Determinized /\ pc = "next_right"
    /\ Position({}) # None
    /\ run[1].ctrl = Ok(Position({})[1])

\* C35: the state that determinize installs for the empty subset is a
\* non-accepting dead state: once a run of the determinized automaton is in
\* it, every later token keeps ctrl in that state without changing the
\* stack (and is yielded as it is), and at the end of the input the verdict
\* is Err(false).
C35_DeadStateIsDead ==
    /\ [](Determinized /\ pc = "accept_left" /\ Position({}) # None =>
              ~det[1][2].states[Position({})[1] + 1].accepting)
    /\ [][InDead =>
              /\ run'[1].stack = run[1].stack
              /\ IF run[1].iter # <<>>
                 THEN /\ run'[1].ctrl = run[1].ctrl
                      /\ items' = Append(items, ItemSome(Ok(run[1].iter[1])))
                 ELSE /\ run'[1].ctrl = Err(FALSE)
                      /\ items' = Append(items, ItemNone)]_vars

\* The run entered the state of the empty subset by a Call edge, stayed in
\* it over the next token with the pushed symbol on the stack, and ended
\* with the verdict Err(false).
C35_Witness ==
    /\ Determinized /\ pc = "done" /\ RunSide = "right"
    /\ Position({}) # None /\ Position(nd[1].initial) # Position({})
    /\ input = <<LeftParen, LeftParen>>
    /\ last[1].ctrl = Ok(Position({})[1])
    /\ last[1].stack = <<Paren>>
    /\ run[1].ctrl = Err(FALSE)
    /\ items = <<ItemSome(Ok(LeftParen)), ItemSome(Ok(LeftParen)), ItemNone>>

\* The state that stands for a subset of the states of a nondeterministic
\* automaton: their merge as Some(state), or None when they do not merge.
Standing(graph, subset) ==
    LET Of(merged) ==
            IF merged = <<"None">> THEN Some(DeadState)
            ELSE IF merged # OutOfRange /\ IsOk(merged) THEN Some(merged[2])
            ELSE None
    IN  Of(MergeStates(graph, SetToSeq(subset), 1, None))

\* The least set of subsets that holds the given ones and the destination of
\* every edge of the state standing for a subset it holds.
RECURSIVE Closure(_, _)
Closure(graph, subsets) ==
    LET more == subsets \cup
                UNION {IF Standing(graph, q) = None THEN {}
                       ELSE StateDsts(Standing(graph, q)[1]) : q \in subsets}
    IN  IF more = subsets THEN subsets ELSE Closure(graph, more)

\* How many of the subsets come before the given one.
Rank(subsets, q) == Cardinality({p \in subsets : SubsetLess(p, q)})

\* An edge, a layer and a state with every destination replaced by its rank.
RankedEdge(e, subsets) == [e EXCEPT !.dst = Rank(subsets, e.dst)]

RankedLayer(w, subsets) ==
    [w EXCEPT !.etc = IF w.etc = None THEN None
                      ELSE Some(RankedEdge(w.etc[1], subsets)),
              !.map = [i \in 1..Len(w.map) |->
                          <<w.map[i][1], RankedEdge(w.map[i][2], subsets)>>]]

RankedState(state, subsets) ==
    [accepting |-> state.accepting,
     transitions |->
        [wildcard |-> IF state.transitions.wildcard = None THEN None
                      ELSE Some(RankedLayer(state.transitions.wildcard[1], subsets)),
         none |-> IF state.transitions.none = None THEN None
                  ELSE Some(RankedLayer(state.transitions.none[1], subsets)),
         some |-> [s \in DOMAIN state.transitions.some |->
                      RankedLayer(state.transitions.some[s], subsets)]]]

\* C36: whenever determinize returns Ok(D), the explored subsets are the
\* closure of N.initial under edge destinations; D has exactly one state per
\* explored subset, placed in increasing order of the subsets; D.initial is
\* the position of N.initial; and every edge destination in D is the
\* position of the destination subset of that edge, hence less than the
\* number of states of D.  The searches for these positions never fail:
\* determinize returns an automaton or an error.
C36_StatesAreExploredSubsets ==
    /\ det # None => det[1] # Panic /\ det[1] # <<"Undefined">>
    /\ Determinized /\ pc = "accept_left" =>
        LET D == det[1][2]
            Explored_(subsets) ==
                /\ nd[1].initial \in subsets
                /\ Len(D.states) = Cardinality(subsets)
                /\ D.initial = Rank(subsets, nd[1].initial)
                /\ \A q \in subsets :
                      /\ Standing(nd[1], q) # None
                      /\ StateDsts(Standing(nd[1], q)[1]) \subseteq subsets
                      /\ D.states[Rank(subsets, q) + 1]
                            = RankedState(Standing(nd[1], q)[1], subsets)
                /\ \A k \in 1..Len(D.states) :
                      \A d \in StateDsts(D.states[k]) : d \in 0..(Len(D.states) - 1)
        IN  Explored_(Closure(nd[1], {nd[1].initial}))

\* determinize returned an automaton of three states, for the empty subset
\* and two others, that starts in its last state and has an edge to its
\* second.
C36_Witness ==
    /\ Determinized
    /\ Len(det[1][2].states) = 3
    /\ {} \in Closure(nd[1], {nd[1].initial})
    /\ det[1][2].initial = 2
    /\ 1 \in StateDsts(det[1][2].states[3])

\* C37: whenever determinize returns Ok(D), the state of D that stands for a
\* non-empty explored subset is accepting if and only if at least one state
\* of N with its index in the subset is accepting.
C37_AcceptingIffSomeMember ==
    Determinized /\ pc = "accept_left" =>
        LET Each(subsets) ==
                \A q \in subsets \ {{}} :
                    det[1][2].states[Rank(subsets, q) + 1].accepting
                        <=> \E i \in q : nd[1].states[i + 1].accepting
        IN  Each(Closure(nd[1], {nd[1].initial}))

\* determinize returned an automaton whose initial state stands for two
\* states of which only the second is accepting, and it is accepting.
C37_Witness ==
    /\ Determinized
    /\ nd[1].initial = {0, 1}
    /\ ~nd[1].states[1].accepting /\ nd[1].states[2].accepting
    /\ det[1][2].states[det[1][2].initial + 1].accepting
    /\ \E q \in Closure(nd[1], {nd[1].initial}) :
          /\ q # {} /\ \A i \in q : ~nd[1].states[i + 1].accepting
          /\ ~det[1][2].states[Rank(Closure(nd[1], {nd[1].initial}), q) + 1].accepting

\* The subsets reachable from the initial one whose states do not merge.
Conflicting(graph) ==
    {q \in Closure(graph, {graph.initial}) :
        IsErr(MergeStates(graph, SetToSeq(q), 1, None))}

\* C38: determinize is all or nothing.  If check fails, determinize returns
\* that error before it explores any subset; and if merging the states of a
\* subset reachable from the initial one reports a conflict, determinize
\* returns such a conflict (the first it meets) and no automaton, the
\* subset of the conflict having no state in the map.
C38_AllOrNothing ==
    Fn = "determinize" /\ out # None =>
        /\ IsErr(AutomatonCheck(To.graph)) =>
              /\ out[1].returned = Some(AutomatonCheck(To.graph))
              /\ out[1].merged = <<>> /\ out[1].calls = <<>>
              /\ DOMAIN out[1].subsets_as_states = {}
        /\ (IsOk(AutomatonCheck(To.graph)) /\ out[1].returned # None) =>
              /\ Conflicting(To.graph) # {} <=> IsErr(out[1].returned[1])
              /\ IsErr(out[1].returned[1]) =>
                    \E q \in Conflicting(To.graph) :
                        /\ out[1].returned[1] = MergeStates(To.graph, SetToSeq(q), 1, None)
                        /\ q \notin DOMAIN out[1].subsets_as_states
              /\ \A q \in DOMAIN out[1].subsets_as_states : q \notin Conflicting(To.graph)

\* explore merged the initial subset, went on to a destination whose states
\* do not merge, and returned that conflict.
C38_Witness ==
    /\ Explored /\ IsOk(AutomatonCheck(To.graph))
    /\ Len(out[1].merged) > 0
    /\ IsErr(out[1].returned[1])
    /\ To.graph.initial \notin Conflicting(To.graph)

\* A call of next is about to be made on a run that has its verdict.
HasVerdict ==
    /\ pc \in {"next_left", "next_right"}
    /\ IsErr(run[1].ctrl)

\* C39: a verdict is terminal.  Once the ctrl of a run is Err(b), every
\* later call of next leaves ctrl equal to Err(b) and the stack as it was,
\* whatever tokens remain in the input: so it is in the runs of the driver,
\* and so it would be of any execution with either verdict, the stack and
\* the remaining input of a run.
C39_VerdictIsTerminal ==
    /\ [][HasVerdict =>
              /\ run'[1].ctrl = run[1].ctrl
              /\ run'[1].stack = run[1].stack]_vars
    /\ [](run # None =>
              \A b \in BOOLEAN, side \in {"left"} \cup (IF Determinized THEN {"right"} ELSE {}) :
                  \A o \in ExecutionNext(build, Graph(side),
                                         [run[1] EXCEPT !.ctrl = Err(b)]) :
                      /\ o[1].ctrl = Err(b)
                      /\ o[1].stack = run[1].stack
                      /\ o[2] # Panic)

\* The run rejected on its second token with a symbol on the stack, and the
\* call of next after that left the verdict and the stack as they were.
C39_Witness ==
    /\ last # None /\ last[1].ctrl = Err(FALSE)
    /\ last[1].stack = <<Paren>>
    /\ Len(items) = 3
    /\ run[1].ctrl = Err(FALSE) /\ run[1].stack = <<Paren>>

\* C40: for an automaton on which check passes, every ctrl value reachable
\* in a run on any input holds only indices less than the number of states,
\* so that the state lookup of a step never indexes out of bounds.
C40_CtrlStaysInRange ==
    (run # None /\ IsOk(AutomatonCheck(Graph(RunSide)))) =>
        /\ IsOk(run[1].ctrl) => InRange(Graph(RunSide), run[1].ctrl[2])
        /\ Stepped =>
              /\ InRange(Graph(RunSide), last[1].ctrl[2])
              /\ last[1].iter # <<>> => LastFold # OutOfRange
              /\ last[1].iter = <<>> =>
                    AnyAccepting(Graph(RunSide).states,
                                 IndicesIter(Graph(RunSide).form, last[1].ctrl[2]), 1)
                        # OutOfRange

\* On an automaton of two states that passed check, a step from state 0
\* took an edge to state 1, the last index there is.
C40_Witness ==
    /\ checked # None /\ IsOk(checked[1]) /\ RunSide = "left"
    /\ Len(left.states) = 2
    /\ Stepped /\ last[1].iter # <<>>
    /\ IndicesSet(left.form, last[1].ctrl[2]) = {0}
    /\ IsOk(LastFold)
    /\ IsOk(run[1].ctrl) /\ IndicesSet(left.form, run[1].ctrl[2]) = {1}

====
